---- MODULE Spec2Model ----
(***************************************************************************)
(* A model of the b6 containers: the balanced tree of src/src/refs.c (AVL  *)
(* and red-black fix-ups over nodes with parent links and three embedded   *)
(* sentinels) and the chunked pool allocator of src/src/pool.c built on    *)
(* top of it.                                                              *)
(***************************************************************************)
EXTENDS Integers, Sequences, FiniteSets, TLC

(***************************************************************************)
(* Program constants.                                                      *)
(***************************************************************************)
B6_NEXT == 0
B6_PREV == 1
NULL == 0
RED == 0
BLACK == 1

\* Stand-ins for the addresses of the three sentinels embedded in b6_tree.
tree_root == -1
tree_head == -2
tree_tail == -3

\* Stand-ins for the addresses of the two sentinels embedded in b6_deque.
deque_head == -4
deque_tail == -5

\* Stand-ins for the addresses of the two sentinels embedded in b6_splay
\* and of the automatic object tmp of do_splay.
splay_head == -6
splay_tail == -7
splay_tmp == -8

\* sizeof(void*) and sizeof(struct b6_chunk) of an LP64 build.
PtrSize == 8
HeaderSize == 64

\* The chunk size b6_pool_initialize starts from when asked to choose.
MinChunkSize == 4096

\* Stand-in for an indeterminate pointer: the value of a field that was
\* never written.  Any access through it ends the process.
Wild == -9

\* Address of the first block the underlying allocator hands out.
BlockBase == 1000

(***************************************************************************)
(* Bounds of the model.                                                    *)
(***************************************************************************)
\* Number of distinct user nodes (keys 1..MaxKeys) offered to the tree.
MaxKeys == 6

\* Number of user nodes with distinct values offered to a tree that has a
\* comparator of the caller's.
MaxCompKeys == 5

\* Number of distinct values among the nodes offered to the splay tree.
MaxSplayKeys == 4

\* Number of adds in a run that starts from an empty tree and only adds.
MaxScript == 3

\* Number of user nodes offered to the two trees run side by side.
MaxPairKeys == 5

\* Number of further user nodes whose keys repeat the keys 1..MaxTwins.
MaxTwins == 2

\* Number of blocks the underlying allocator can hand out before it fails.
MaxBlocks == 2

\* Width of the C type unsigned in the model of b6_pool_initialize (the
\* build has 32; size_t is modelled twice as wide).
UnsignedBits == 14

\* Number of references offered to the deque under test.
MaxSrefs == 4

\* Width of the C type unsigned long in the model of the vector (the
\* builds have 32 or 64).
ULongBits == 3

\* Number of nodes offered to the threaded splay tree of splay.h.
MaxThreadKeys == 4

Keys == 1..MaxKeys
Sentinels == {tree_root, tree_head, tree_tail}

(***************************************************************************)
(* Integer helpers for the C operators used on small signed values.        *)
(***************************************************************************)
\* x >> 1 on a signed int (arithmetic shift: floor division by two).
Shr1(x) == x \div 2

\* a & b on two's complement integers of unbounded width.
RECURSIVE BitAnd(_, _)
BitAnd(a, b) ==
    IF a = 0 \/ b = 0 THEN 0
    ELSE IF a = -1 THEN b
    ELSE IF b = -1 THEN a
    ELSE ((a % 2) * (b % 2)) + 2 * BitAnd(a \div 2, b \div 2)

\* x ^ 1: flip the low bit.
Xor1(x) == IF x % 2 = 0 THEN x + 1 ELSE x - 1

(***************************************************************************)
(* Directions and weights.                                                 *)
(***************************************************************************)
is_direction(direction) == direction = B6_PREV \/ direction = B6_NEXT

to_direction(weight) == Shr1(1 - weight)

to_opposite(direction) == Xor1(direction)

to_weight(direction) == ((-direction) * 2) + 1

(***************************************************************************)
(* Tree nodes.  A tree is a function from node addresses to b6_tref        *)
(* records; ref is indexed by direction.                                   *)
(***************************************************************************)
Refs(next, prev) == (B6_NEXT :> next) @@ (B6_PREV :> prev)

b6_tref(next, prev, top, dir, balance) ==
    [ref |-> Refs(next, prev), top |-> top, dir |-> dir, balance |-> balance]

\* A node that is not linked in the tree.  Its fields are never read before
\* b6_tree_insert and the add fix-up overwrite them, so the stale values a
\* removed node keeps in C are not part of the state.
Detached == b6_tref(NULL, NULL, NULL, 0, 0)

has_child(t, ref, dir) == t[ref].ref[dir] # NULL

\* Each s_i is one statement of the function, applied to the heap u.
rotate_keeps_inner_top(t, r, dir, opp) ==
    LET p == t[r].ref[opp]
        q == t[p].ref[dir]
        s2(u) == [u EXCEPT ![r].ref[opp] = q]
        s3(u) == [u EXCEPT ![p].top = u[r].top]
        s4(u) == [u EXCEPT ![u[r].top].ref[u[r].dir] = p]
        s5(u) == [u EXCEPT ![r].top = p]
        s6(u) == [u EXCEPT ![p].ref[dir] = r]
        s7(u) == [u EXCEPT ![p].dir = u[r].dir]
        s8(u) == [u EXCEPT ![r].dir = dir]
    IN  s8(s7(s6(s5(s4(s3(s2(t)))))))

\* A faulty rotate: the link of the parent of r is left on r.
rotate_keeps_parent_link(t, r, dir, opp) ==
    LET p == t[r].ref[opp]
        q == t[p].ref[dir]
        s1(u) == IF has_child(u, p, dir)
                 THEN [u EXCEPT ![q].top = r, ![q].dir = opp]
                 ELSE u
        s2(u) == [u EXCEPT ![r].ref[opp] = q]
        s3(u) == [u EXCEPT ![p].top = u[r].top]
        s5(u) == [u EXCEPT ![r].top = p]
        s6(u) == [u EXCEPT ![p].ref[dir] = r]
        s7(u) == [u EXCEPT ![p].dir = u[r].dir]
        s8(u) == [u EXCEPT ![r].dir = dir]
    IN  s8(s7(s6(s5(s3(s2(s1(t)))))))

rotate(t, r, dir, opp) ==
    LET p == t[r].ref[opp]
        q == t[p].ref[dir]
        s1(u) == IF has_child(u, p, dir)
                 THEN [u EXCEPT ![q].top = r, ![q].dir = opp]
                 ELSE u
        s2(u) == [u EXCEPT ![r].ref[opp] = q]
        s3(u) == [u EXCEPT ![p].top = u[r].top]
        s4(u) == [u EXCEPT ![u[r].top].ref[u[r].dir] = p]
        s5(u) == [u EXCEPT ![r].top = p]
        s6(u) == [u EXCEPT ![p].ref[dir] = r]
        s7(u) == [u EXCEPT ![p].dir = u[r].dir]
        s8(u) == [u EXCEPT ![r].dir = dir]
    IN  s8(s7(s6(s5(s4(s3(s2(s1(t))))))))

(***************************************************************************)
(* AVL discipline.                                                         *)
(***************************************************************************)
\* A faulty rebalance_avl: the single rotation leaves the balance of r as it
\* was.
rebalance_avl_keeps_balance(t, r) ==
    LET opp    == to_direction(Shr1(t[r].balance))
        dir    == to_opposite(opp)
        weight == to_weight(dir)
        p      == t[r].ref[opp]
        change == t[p].balance
    IN  IF change = weight
        THEN LET q == t[p].ref[dir]
                 s1(u) == [u EXCEPT ![r].balance =
                              -BitAnd(Shr1(u[q].balance - weight), u[q].balance)]
                 s2(u) == [u EXCEPT ![p].balance =
                              -BitAnd(Shr1(u[q].balance + weight), u[q].balance)]
                 s3(u) == [u EXCEPT ![q].balance = 0]
                 s4(u) == rotate(u, u[r].ref[opp], opp, dir)
                 s5(u) == rotate(u, r, dir, opp)
             IN  [tree |-> s5(s4(s3(s2(s1(t))))), change |-> change]
        ELSE LET s6(u) == [u EXCEPT ![p].balance = @ + weight]
                 s8(u) == rotate(u, r, dir, opp)
             IN  [tree |-> s8(s6(t)), change |-> change]

\* Returns the rebalanced tree and the former balance of the child p.
rebalance_avl_single_only(t, r) ==
    LET opp    == to_direction(Shr1(t[r].balance))
        dir    == to_opposite(opp)
        weight == to_weight(dir)
        p      == t[r].ref[opp]
        s6(u) == [u EXCEPT ![p].balance = @ + weight]
        s7(u) == [u EXCEPT ![r].balance = -u[p].balance]
        s8(u) == rotate(u, r, dir, opp)
    IN  [tree |-> s8(s7(s6(t))), change |-> t[p].balance]

rebalance_avl(t, r) ==
    LET opp    == to_direction(Shr1(t[r].balance))
        dir    == to_opposite(opp)
        weight == to_weight(dir)
        p      == t[r].ref[opp]
        change == t[p].balance
    IN  IF change = weight
        THEN LET q == t[p].ref[dir]
                 s1(u) == [u EXCEPT ![r].balance =
                              -BitAnd(Shr1(u[q].balance - weight), u[q].balance)]
                 s2(u) == [u EXCEPT ![p].balance =
                              -BitAnd(Shr1(u[q].balance + weight), u[q].balance)]
                 s3(u) == [u EXCEPT ![q].balance = 0]
                 s4(u) == rotate(u, u[r].ref[opp], opp, dir)
                 s5(u) == rotate(u, r, dir, opp)
             IN  [tree |-> s5(s4(s3(s2(s1(t))))), change |-> change]
        ELSE LET s6(u) == [u EXCEPT ![p].balance = @ + weight]
                 s7(u) == [u EXCEPT ![r].balance = -u[p].balance]
                 s8(u) == rotate(u, r, dir, opp)
             IN  [tree |-> s8(s7(s6(t))), change |-> change]

RECURSIVE fix_avl_insert_loop(_, _)
fix_avl_insert_loop(t, ref) ==
    LET weight == to_weight(t[ref].dir)
        up     == t[ref].top
    IN  IF up = tree_root THEN t
        ELSE LET balance == t[up].balance
                 t1      == [t EXCEPT ![up].balance = @ + weight]
             IN  IF t1[up].balance = 0 THEN t1
                 ELSE IF balance # 0 THEN rebalance_avl(t1, up).tree
                 ELSE fix_avl_insert_loop(t1, up)

fix_avl_insert(t, ref) ==
    fix_avl_insert_loop([t EXCEPT ![ref].balance = 0], ref)

RECURSIVE fix_avl_remove(_, _, _, _)
fix_avl_remove(t, ref, dir, old) ==
    LET balance == t[ref].balance
        weight  == to_weight(dir)
        t1      == [t EXCEPT ![ref].balance = @ - weight]
        ndir    == t1[ref].dir
        top     == t1[ref].top
        rebalanced(rb) ==
            IF rb.change = 0 THEN rb.tree
            ELSE IF top # tree_root
                 THEN fix_avl_remove(rb.tree, top, ndir, old)
                 ELSE rb.tree
    IN  IF balance = 0 THEN t1
        ELSE IF t1[ref].balance # 0 THEN rebalanced(rebalance_avl(t1, ref))
        ELSE IF top # tree_root THEN fix_avl_remove(t1, top, ndir, old)
        ELSE t1

(***************************************************************************)
(* Red-black discipline: balance is the colour.                            *)
(***************************************************************************)
RECURSIVE fix_rb_insert_loop(_, _, _)
fix_rb_insert_loop(t, ref, top) ==
    IF t[top].balance # RED THEN t
    ELSE
    LET elder     == t[top].top
        direction == t[top].dir
        opposite  == to_opposite(direction)
        uncle     == t[elder].ref[opposite]
    IN  IF has_child(t, elder, opposite) /\ t[uncle].balance = RED
        THEN LET t1 == [t EXCEPT ![top].balance = BLACK,
                                 ![uncle].balance = BLACK,
                                 ![elder].balance = RED]
                 ntop == t1[elder].top
             IN  IF ntop # tree_root
                 THEN fix_rb_insert_loop(t1, elder, ntop)
                 ELSE [t1 EXCEPT ![elder].balance = BLACK]
        ELSE LET swap == t[top].ref[direction] # ref
                 t1   == IF swap THEN rotate(t, top, direction, opposite) ELSE t
                 top1 == IF swap THEN ref ELSE top
                 t2   == [t1 EXCEPT ![top1].balance = BLACK,
                                    ![elder].balance = RED]
             IN  rotate(t2, elder, opposite, direction)

fix_rb_insert(t, ref) ==
    LET top == t[ref].top
    IN  IF top = tree_root
        THEN [t EXCEPT ![ref].balance = BLACK]
        ELSE fix_rb_insert_loop([t EXCEPT ![ref].balance = RED], ref, top)

\* color[d] of fix_rb_remove: the colour of the sibling's child, BLACK if absent.
nephew_color(t, sibling, d) ==
    IF has_child(t, sibling, d) THEN t[t[sibling].ref[d]].balance ELSE BLACK

RECURSIVE fix_rb_remove_loop(_, _, _)
fix_rb_remove_loop(t, top, dir) ==
    LET opp == to_opposite(dir)
        \* if (sibling->balance == RED) { ... rotate(top, dir, opp); }
        red_sibling(u) ==
            LET sibling == u[top].ref[opp]
            IN  IF u[sibling].balance = RED
                THEN rotate([u EXCEPT ![top].balance = RED,
                                      ![sibling].balance = BLACK],
                            top, dir, opp)
                ELSE u
        \* if (color[opp] != RED) { ... rotate(sibling, opp, dir); }
        near_nephew(u) ==
            LET sibling == u[top].ref[opp]
            IN  IF nephew_color(u, sibling, opp) # RED
                THEN rotate([u EXCEPT ![u[sibling].ref[dir]].balance = BLACK,
                                      ![sibling].balance = RED],
                            sibling, opp, dir)
                ELSE u
        \* sibling->balance = top->balance; ... rotate(top, dir, opp); break;
        far_nephew(u) ==
            LET sibling == u[top].ref[opp]
                s1(v) == [v EXCEPT ![sibling].balance = v[top].balance]
                s2(v) == [v EXCEPT ![top].balance = BLACK]
                s3(v) == [v EXCEPT ![v[sibling].ref[opp]].balance = BLACK]
            IN  rotate(s3(s2(s1(u))), top, dir, opp)
        \* sibling->balance = RED; ... } while (top != &tree->root);
        recolor(u) ==
            LET v == [u EXCEPT ![u[top].ref[opp]].balance = RED]
            IN  IF v[top].balance = RED
                THEN [v EXCEPT ![top].balance = BLACK]
                ELSE IF v[top].top # tree_root
                     THEN fix_rb_remove_loop(v, v[top].top, v[top].dir)
                     ELSE v
        nephews(u) ==
            LET sibling == u[top].ref[opp]
            IN  IF nephew_color(u, sibling, B6_PREV) = RED
                   \/ nephew_color(u, sibling, B6_NEXT) = RED
                THEN far_nephew(near_nephew(u))
                ELSE recolor(u)
    IN  nephews(red_sibling(t))

\* A faulty fix_rb_remove: the RED child that took the place of the removed
\* node is not painted BLACK.
fix_rb_remove_keeps_red(t, top, dir, old_balance) ==
    IF old_balance = RED THEN t
    ELSE IF has_child(t, top, dir) /\ t[t[top].ref[dir]].balance = RED
    THEN t
    ELSE fix_rb_remove_loop(t, top, dir)

\* old_balance is old->balance, the only field of old that is read.
fix_rb_remove(t, top, dir, old_balance) ==
    IF old_balance = RED THEN t
    ELSE IF has_child(t, top, dir) /\ t[t[top].ref[dir]].balance = RED
    THEN [t EXCEPT ![t[top].ref[dir]].balance = BLACK]
    ELSE fix_rb_remove_loop(t, top, dir)

(***************************************************************************)
(* The two disciplines behind tree->ops.                                   *)
(***************************************************************************)
b6_avl_tree == "avl"
b6_rb_tree == "rb"

ops_add(ops, t, ref) ==
    IF ops = b6_avl_tree THEN fix_avl_insert(t, ref) ELSE fix_rb_insert(t, ref)

ops_del(ops, t, top, dir, old_balance) ==
    IF ops = b6_avl_tree
    THEN fix_avl_remove(t, top, dir, old_balance)
    ELSE fix_rb_remove(t, top, dir, old_balance)

(***************************************************************************)
(* Tree operations.                                                        *)
(***************************************************************************)
\* The tree over the node addresses nodes, all of them detached.
b6_tree_initialize(nodes) ==
    [n \in nodes \cup Sentinels |->
        IF n = tree_head
        THEN b6_tref(tree_tail, NULL, tree_root, B6_PREV, to_weight(B6_NEXT))
        ELSE IF n = tree_tail
        THEN b6_tref(NULL, NULL, tree_head, B6_NEXT, 0)
        ELSE IF n = tree_root
        THEN b6_tref(NULL, tree_head, NULL, 0, 0)
        ELSE Detached]

\* The precondition of to_direction: the weight is -1 or 1.
to_direction_precond_wide(weight) == weight \in {-2, -1, 1}

to_direction_precond(weight) == weight = -1 \/ weight = 1

\* The references b6_tree_search does not hand to cmp.
search_skips_head_only(ref) == ref = tree_head

search_skips(ref) == ref = tree_head \/ ref = tree_tail

\* The descent of b6_tree_search from (top, dir); cmp[ref] is the examine
\* result for ref.  Yields the match (or NULL), the last top and dir, ok
\* (FALSE when the precondition of to_direction was violated) and the trail:
\* one entry per iteration with the reference reached, whether cmp was
\* called with it, the result of that call and the direction chosen.
RECURSIVE b6_tree_search_from(_, _, _, _, _)
b6_tree_search_from(t, top, dir, cmp, trail) ==
    LET ref == t[top].ref[dir]
        step(d, e, r) == Append(trail, [ref |-> ref, dir |-> d,
                                        examined |-> e, result |-> r])
    IN  IF search_skips(ref)
        THEN LET ndir == IF ref = tree_head THEN B6_NEXT ELSE B6_PREV
             IN  IF has_child(t, ref, ndir)
                 THEN b6_tree_search_from(t, ref, ndir, cmp,
                                          step(ndir, FALSE, 0))
                 ELSE [ref |-> NULL, top |-> ref, dir |-> ndir, ok |-> TRUE,
                       trail |-> step(ndir, FALSE, 0)]
        ELSE IF cmp[ref] = 0
        THEN [ref |-> ref, top |-> top, dir |-> dir, ok |-> TRUE,
              trail |-> step(dir, TRUE, 0)]
        ELSE IF ~to_direction_precond(-cmp[ref])
        THEN [ref |-> NULL, top |-> top, dir |-> dir, ok |-> FALSE,
              trail |-> step(dir, TRUE, cmp[ref])]
        ELSE LET ndir == to_direction(-cmp[ref])
             IN  IF has_child(t, ref, ndir)
                 THEN b6_tree_search_from(t, ref, ndir, cmp,
                                          step(ndir, TRUE, cmp[ref]))
                 ELSE [ref |-> NULL, top |-> ref, dir |-> ndir, ok |-> TRUE,
                       trail |-> step(ndir, TRUE, cmp[ref])]

b6_tree_search(t, cmp) ==
    b6_tree_search_from(t, tree_root, B6_PREV, cmp, <<>>)

b6_tree_insert(ops, t, top, dir, ref) ==
    LET t1 == [t EXCEPT ![ref] = b6_tref(NULL, NULL, top, dir, @.balance)]
        t2 == [t1 EXCEPT ![top].ref[dir] = ref]
    IN  ops_add(ops, t2, ref)

\* b6_sign_of
b6_sign_of(i) == IF i < 0 THEN -1 ELSE IF i > 0 THEN 1 ELSE 0

\* The comparator a tree gets by default: the nodes' keys are their addresses.
default_compare(a, b) == b6_sign_of(a - b)

b6_tree_add_returns_ref(ops, t, comp, ref) ==
    LET found(s) ==
            IF s.ref # NULL
            THEN [tree |-> t, ret |-> ref, ok |-> s.ok, trail |-> s.trail]
            ELSE [tree |-> b6_tree_insert(ops, t, s.top, s.dir, ref),
                  ret |-> ref, ok |-> s.ok, trail |-> s.trail]
    IN  found(b6_tree_search(t, [r \in DOMAIN t |-> comp[<<r, ref>>]]))

\* Yields the tree, the returned reference, ok (FALSE when a precondition
\* was violated) and the trail of the search; comp[<<a, b>>] is tree->comp.
b6_tree_add(ops, t, comp, ref) ==
    LET found(s) ==
            IF ~s.ok
            THEN [tree |-> t, ret |-> NULL, ok |-> FALSE, trail |-> s.trail]
            ELSE IF s.ref # NULL
            THEN [tree |-> t, ret |-> s.ref, ok |-> TRUE, trail |-> s.trail]
            ELSE [tree |-> b6_tree_insert(ops, t, s.top, s.dir, ref),
                  ret |-> ref, ok |-> TRUE, trail |-> s.trail]
    IN  found(b6_tree_search(t, [r \in DOMAIN t |-> comp[<<r, ref>>]]))

\* The last node reached from ref by following direction.
RECURSIVE extreme(_, _, _)
extreme(t, ref, direction) ==
    IF has_child(t, ref, direction)
    THEN extreme(t, t[ref].ref[direction], direction)
    ELSE ref

\* Yields the tree after removing ref; the removed node is left detached.
b6_tree_del(ops, t, ref) ==
    LET dir == t[ref].dir
        top == t[ref].top
        detach(u) == [u EXCEPT ![ref] = Detached]
    IN  IF ~has_child(t, ref, B6_PREV)
        THEN LET tmp == t[ref].ref[B6_NEXT]
                 s1(u) == IF has_child(u, ref, B6_NEXT)
                          THEN [u EXCEPT ![tmp].dir = dir, ![tmp].top = top,
                                         ![top].ref[dir] = tmp]
                          ELSE [u EXCEPT ![top].ref[dir] = NULL]
                 s2(u) == ops_del(ops, u, top, dir, u[ref].balance)
             IN  detach(s2(s1(t)))
        ELSE IF ~has_child(t, ref, B6_NEXT)
        THEN LET tmp == t[ref].ref[B6_PREV]
                 s3(u) == [u EXCEPT ![tmp].dir = dir, ![tmp].top = top,
                                    ![top].ref[dir] = tmp]
                 s4(u) == ops_del(ops, u, top, dir, u[ref].balance)
             IN  detach(s4(s3(t)))
        ELSE
        LET direction == Shr1(t[ref].balance + 1)
            opposite  == to_opposite(direction)
        IN  IF has_child(t, t[ref].ref[opposite], direction)
            THEN LET aux == extreme(t, t[ref].ref[opposite], direction)
                     tmp == t[aux].top
                     a1(u) == [u EXCEPT ![tmp].ref[direction] =
                                            u[aux].ref[opposite]]
                     a2(u) == IF has_child(u, tmp, direction)
                              THEN [u EXCEPT
                                     ![u[tmp].ref[direction]].top = tmp,
                                     ![u[tmp].ref[direction]].dir = direction]
                              ELSE u
                     a3(u) == [u EXCEPT ![top].ref[dir] = aux]
                     a4(u) == [u EXCEPT ![aux].top = top]
                     a5(u) == [u EXCEPT ![aux].ref[opposite] =
                                            u[ref].ref[opposite]]
                     a6(u) == [u EXCEPT ![aux].ref[direction] =
                                            u[ref].ref[direction]]
                     a7(u) == [u EXCEPT ![u[aux].ref[opposite]].top = aux]
                     a8(u) == [u EXCEPT ![u[aux].ref[direction]].top = aux]
                     a9(u) == [u EXCEPT ![aux].dir = dir]
                     a10(u) == [u EXCEPT ![aux].balance = u[ref].balance,
                                         ![ref].balance = u[aux].balance]
                     a11(u) == ops_del(ops, u, tmp, direction, u[ref].balance)
                 IN  detach(a11(a10(a9(a8(a7(a6(a5(a4(a3(a2(a1(t))))))))))))
            ELSE LET aux == t[ref].ref[opposite]
                     b1(u) == [u EXCEPT ![top].ref[dir] = aux]
                     b2(u) == [u EXCEPT ![aux].top = top]
                     b3(u) == [u EXCEPT ![aux].dir = dir]
                     b4(u) == [u EXCEPT ![aux].ref[direction] =
                                            u[ref].ref[direction]]
                     b5(u) == [u EXCEPT ![u[aux].ref[direction]].top = aux]
                     b6(u) == [u EXCEPT ![aux].balance = u[ref].balance,
                                        ![ref].balance = u[aux].balance]
                     b7(u) == ops_del(ops, u, aux, opposite, u[ref].balance)
                 IN  detach(b7(b6(b5(b4(b3(b2(b1(t))))))))

\* The nodes of the physical tree hanging under ref (ref included).
RECURSIVE subtree(_, _)
subtree(t, ref) ==
    IF ref = NULL THEN {}
    ELSE {ref} \cup subtree(t, t[ref].ref[B6_PREV])
               \cup subtree(t, t[ref].ref[B6_NEXT])

RECURSIVE height(_, _)
height(t, ref) ==
    IF ref = NULL THEN 0
    ELSE LET h1 == height(t, t[ref].ref[B6_PREV])
             h2 == height(t, t[ref].ref[B6_NEXT])
         IN  1 + (IF h1 > h2 THEN h1 ELSE h2)



\* The first elder of ref reached through a link in another direction than
\* dir, or the root.
RECURSIVE elder(_, _, _)
elder(t, ref, dir) ==
    IF t[ref].dir = dir /\ ref # tree_root
    THEN elder(t, t[ref].top, dir)
    ELSE ref

b6_tree_walk_no_dive(t, ref, dir) ==
    IF has_child(t, ref, dir)
    THEN t[ref].ref[dir]
    ELSE t[elder(t, ref, dir)].top

b6_tree_walk(t, ref, dir) ==
    IF has_child(t, ref, dir)
    THEN extreme(t, t[ref].ref[dir], to_opposite(dir))
    ELSE t[elder(t, ref, dir)].top

b6_tree_first(t) == b6_tree_walk(t, tree_head, B6_NEXT)

b6_tree_last(t) == b6_tree_walk(t, tree_tail, B6_PREV)

\* Yields the removed reference (or NULL), the tree, ok and the trail.
b6_tree_remove(ops, t, cmp) ==
    LET found(s) ==
            IF s.ok /\ s.ref # NULL
            THEN [tree |-> b6_tree_del(ops, t, s.ref), ret |-> s.ref,
                  ok |-> TRUE, trail |-> s.trail]
            ELSE [tree |-> t, ret |-> NULL, ok |-> s.ok, trail |-> s.trail]
    IN  found(b6_tree_search(t, cmp))

(***************************************************************************)
(* Splay tree of src/src/splay.c: double references, no parent link, the   *)
(* head and the tail sentinels are nodes of the tree.  A splay tree is     *)
(* [ref: address -> links by direction, root: address]; the links of a     *)
(* user node that is not in the tree are user memory and kept NULL.        *)
(***************************************************************************)
\* node->val of the nodes offered to trees with a comparator of the
\* caller's: the nodes above MaxKeys repeat the values from 1 on.
val(n) == IF n > MaxKeys THEN n - MaxKeys ELSE n

node_cmp(a, b) == b6_sign_of(val(a) - val(b))

b6_splay_initialize(nodes) ==
    [ref  |-> [n \in nodes \cup {splay_head, splay_tail, splay_tmp} |->
                  IF n = splay_head THEN Refs(splay_tail, NULL)
                  ELSE Refs(NULL, NULL)],
     root |-> splay_head]

is_splay_ref(ref) == ref # NULL

\* cmp[ref] is the examine result for the user node ref.
splay_cmp(ref, cmp) ==
    IF ref = splay_head THEN -1
    ELSE IF ref = splay_tail THEN 1
    ELSE cmp[ref]

\* The references splay_cmp hands to the callback when called on ref.
splay_cmp_calls(ref) ==
    IF ref = splay_head THEN {}
    ELSE IF ref = splay_tail THEN {}
    ELSE {ref}

\* The while loop of do_splay; lnk is the local array ref[2].  Yields the
\* tree, lnk, the last result, ok (FALSE on a violated precondition) and
\* examined, the references the callback was called with.
RECURSIVE do_splay_loop(_, _, _)
do_splay_loop(s, lnk, cmp) ==
    LET res == splay_cmp(s.root, cmp)
        opp == to_direction(res)
        dir == to_opposite(opp)
        one == splay_cmp_calls(s.root)
        two == one \cup splay_cmp_calls(s.ref[s.root][dir])
        out(u, ok, S) == [splay |-> u, lnk |-> lnk, res |-> res, ok |-> ok,
                          examined |-> S]
        more(r) == [r EXCEPT !.examined = @ \cup two]
        z1(u, swp) == [u EXCEPT !.ref[u.root][dir] = u.ref[swp][opp]]
        z2(u, swp) == [u EXCEPT !.ref[swp][opp] = u.root]
        z3(u, swp) == [u EXCEPT !.root = swp]
        zig(u, swp) == z3(z2(z1(u, swp), swp), swp)
        link(u) == do_splay_loop(
                       [u EXCEPT !.ref[lnk[opp]][dir] = u.root,
                                 !.root = u.ref[u.root][dir]],
                       [lnk EXCEPT ![opp] = u.root], cmp)
        zigged(u) == IF ~is_splay_ref(u.ref[u.root][dir])
                     THEN out(u, TRUE, two)
                     ELSE more(link(u))
    IN  IF res = 0 THEN out(s, TRUE, one)
        ELSE IF ~to_direction_precond(res) THEN out(s, FALSE, one)
        ELSE IF ~is_splay_ref(s.ref[s.root][dir]) THEN out(s, TRUE, one)
        ELSE IF res = splay_cmp(s.ref[s.root][dir], cmp)
        THEN zigged(zig(s, s.ref[s.root][dir]))
        ELSE more(link(s))

\* Yields the tree, the result of the last comparison, ok and examined.
do_splay(s, cmp) ==
    LET a1(u, l) == [u EXCEPT !.ref[l[B6_PREV]][B6_NEXT] =
                                  u.ref[u.root][B6_PREV]]
        a2(u, l) == [u EXCEPT !.ref[l[B6_NEXT]][B6_PREV] =
                                  u.ref[u.root][B6_NEXT]]
        a3(u) == [u EXCEPT !.ref[u.root][B6_PREV] =
                               u.ref[splay_tmp][B6_NEXT]]
        a4(u) == [u EXCEPT !.ref[u.root][B6_NEXT] =
                               u.ref[splay_tmp][B6_PREV]]
        \* tmp ends with the call
        a5(u) == [u EXCEPT !.ref[splay_tmp] = Refs(NULL, NULL)]
        done(r) == [splay |-> IF r.ok
                              THEN a5(a4(a3(a2(a1(r.splay, r.lnk), r.lnk))))
                              ELSE a5(r.splay),
                    res |-> r.res, ok |-> r.ok, examined |-> r.examined]
    IN  done(do_splay_loop(s, [d \in {B6_NEXT, B6_PREV} |-> splay_tmp],
                           cmp))

b6_splay_add_returns_ref(s, cmp, ref) ==
    LET b1(u, dir, opp) == [u EXCEPT !.ref[ref][dir] = u.ref[u.root][dir]]
        b2(u, dir, opp) == [u EXCEPT !.ref[ref][opp] = u.root]
        b3(u, dir, opp) == [u EXCEPT !.ref[u.root][dir] = NULL]
        b4(u, dir, opp) == [u EXCEPT !.root = ref]
        attach(u, dir, opp) ==
            b4(b3(b2(b1(u, dir, opp), dir, opp), dir, opp), dir, opp)
        added(r) ==
            IF r.res = 0
            THEN [splay |-> r.splay, ret |-> ref, ok |-> r.ok,
                  examined |-> r.examined]
            ELSE [splay |-> attach(r.splay,
                                   to_opposite(to_direction(r.res)),
                                   to_direction(r.res)),
                  ret |-> ref, ok |-> r.ok, examined |-> r.examined]
    IN  added(do_splay(s, cmp))

\* Yields the tree, the returned reference, ok and examined; cmp[n] is
\* splay->comp(n, ref).
b6_splay_add(s, cmp, ref) ==
    LET b1(u, dir, opp) == [u EXCEPT !.ref[ref][dir] = u.ref[u.root][dir]]
        b2(u, dir, opp) == [u EXCEPT !.ref[ref][opp] = u.root]
        b3(u, dir, opp) == [u EXCEPT !.ref[u.root][dir] = NULL]
        b4(u, dir, opp) == [u EXCEPT !.root = ref]
        attach(u, dir, opp) ==
            b4(b3(b2(b1(u, dir, opp), dir, opp), dir, opp), dir, opp)
        added(r) ==
            IF ~r.ok THEN [splay |-> r.splay, ret |-> NULL, ok |-> FALSE,
                           examined |-> r.examined]
            ELSE IF r.res = 0
            THEN [splay |-> r.splay, ret |-> r.splay.root, ok |-> TRUE,
                  examined |-> r.examined]
            ELSE [splay |-> attach(r.splay,
                                   to_opposite(to_direction(r.res)),
                                   to_direction(r.res)),
                  ret |-> ref, ok |-> TRUE, examined |-> r.examined]
    IN  added(do_splay(s, cmp))

b6_splay_empty(s) ==
    \/ splay_tail = s.ref[splay_head][B6_NEXT]
    \/ splay_head = s.ref[splay_tail][B6_PREV]

\* The last node in direction NEXT under cur, and its parent.
RECURSIVE splay_latest(_, _, _)
splay_latest(s, top, cur) ==
    IF is_splay_ref(s.ref[cur][B6_NEXT])
    THEN splay_latest(s, cur, s.ref[cur][B6_NEXT])
    ELSE [top |-> top, cur |-> cur]

\* Yields the tree, the returned reference and ok (FALSE when the
\* precondition fails or the root has no PREV child to read).
b6_splay_del(s) ==
    LET ref == s.root
        top == s.ref[s.root][B6_PREV]
        c1(u, f) == [u EXCEPT !.ref[f.top][B6_NEXT] = u.ref[f.cur][B6_PREV]]
        c2(u, f) == [u EXCEPT !.ref[f.cur][B6_PREV] = u.ref[ref][B6_PREV]]
        c3(u, f) == [u EXCEPT !.ref[f.cur][B6_NEXT] = u.ref[ref][B6_NEXT]]
        c4(u, f) == [u EXCEPT !.root = f.cur]
        promote(f) == c4(c3(c2(c1(s, f), f), f), f)
        d1(u) == [u EXCEPT !.ref[top][B6_NEXT] = u.ref[ref][B6_NEXT]]
        d2(u) == [u EXCEPT !.root = top]
        \* the removed node is the caller's again
        gone(u) == IF ref \in {splay_head, splay_tail} THEN u
                   ELSE [u EXCEPT !.ref[ref] = Refs(NULL, NULL)]
    IN  IF b6_splay_empty(s) \/ ~is_splay_ref(top)
        THEN [splay |-> s, ret |-> NULL, ok |-> FALSE]
        ELSE IF is_splay_ref(s.ref[top][B6_NEXT])
        THEN [splay |-> gone(promote(
                            splay_latest(s, top, s.ref[top][B6_NEXT]))),
              ret |-> ref, ok |-> TRUE]
        ELSE [splay |-> gone(d2(d1(s))), ret |-> ref, ok |-> TRUE]

b6_splay_search_returns_root(s, examine) ==
    LET found(r) == [splay |-> r.splay, ret |-> r.splay.root, ok |-> r.ok,
                     examined |-> r.examined]
    IN  found(do_splay(s, examine))

\* Yields the tree, the returned reference, ok and examined.
b6_splay_search(s, examine) ==
    LET found(r) == [splay |-> r.splay,
                     ret |-> IF r.res # 0 THEN NULL ELSE r.splay.root,
                     ok |-> r.ok, examined |-> r.examined]
    IN  found(do_splay(s, examine))

\* The last node reached from cur by following direction opp.
RECURSIVE splay_dive(_, _, _)
splay_dive(s, cur, opp) ==
    IF is_splay_ref(s.ref[cur][opp])
    THEN splay_dive(s, s.ref[cur][opp], opp)
    ELSE cur

\* The do-while loop of b6_splay_walk, from the root down to ref; top is
\* the local top.ref, whose entries start as junk.top, the contents of a
\* local that was not initialized.  splay->comp is node_cmp; junk.cmp is
\* what it answers when its second argument is a sentinel, which holds no
\* element.  examined holds the references splay->comp was called with.
RECURSIVE splay_climb(_, _, _, _, _, _)
splay_climb(s, ref, cur, top, dir, junk) ==
    LET res == IF ref = splay_head THEN -1
               ELSE IF ref = splay_tail THEN 1
               ELSE IF cur \in {splay_head, splay_tail} THEN junk.cmp
               ELSE node_cmp(ref, cur)
        calls == IF splay_cmp_calls(ref) = {} \/ ~is_splay_ref(cur)
                 THEN {} ELSE {ref, cur}
        more(r) == [r EXCEPT !.examined = @ \cup calls]
        next(d) == splay_climb(s, ref, s.ref[cur][d],
                               [top EXCEPT ![to_opposite(d)] = cur],
                               dir, junk)
        last(d) == [top EXCEPT ![to_opposite(d)] = cur][dir]
    IN  IF ~is_splay_ref(cur) \/ ~to_direction_precond(res)
        THEN [ret |-> NULL, ok |-> FALSE, examined |-> calls]
        ELSE IF s.ref[cur][to_direction(res)] = ref
        THEN [ret |-> last(to_direction(res)),
              ok |-> last(to_direction(res)) # junk.top,
              examined |-> calls]
        ELSE more(next(to_direction(res)))

\* Yields the reference reached, ok (FALSE when an assertion fails, an
\* invalid pointer is read or the value returned is that of an entry of
\* top that was never written) and examined.
b6_splay_walk(s, ref, dir, junk) ==
    IF ref \notin DOMAIN s.ref
    THEN [ret |-> NULL, ok |-> FALSE, examined |-> {}]
    ELSE IF is_splay_ref(s.ref[ref][dir])
    THEN [ret |-> splay_dive(s, s.ref[ref][dir], to_opposite(dir)),
          ok |-> TRUE, examined |-> {}]
    ELSE IF s.root = ref
    THEN [ret |-> NULL, ok |-> FALSE, examined |-> {}]
    ELSE splay_climb(s, ref, s.root,
                     [d \in {B6_NEXT, B6_PREV} |-> junk.top], dir, junk)

(***************************************************************************)
(* Deque (singly linked, head and tail sentinels, cached last).  A deque   *)
(* is [ref: address -> next address, last: address]; the link of a         *)
(* reference that is not in the deque is user memory and kept NULL.        *)
(***************************************************************************)
b6_deque_initialize(srefs) ==
    [ref  |-> [a \in srefs \cup {deque_head, deque_tail} |->
                  IF a = deque_head THEN deque_tail ELSE NULL],
     last |-> deque_head]

\* The loop of b6_deque_walk: the reference whose link is curr, from prev
\* on; ok is FALSE when the loop leaves the deque through tail.ref.
RECURSIVE deque_before(_, _, _)
deque_before(d, prev, curr) ==
    IF prev = NULL THEN [ret |-> NULL, ok |-> FALSE]
    ELSE IF d.ref[prev] = curr THEN [ret |-> prev, ok |-> TRUE]
    ELSE deque_before(d, d.ref[prev], curr)

\* Yields [ret, ok]; ok is FALSE when a precondition is violated or the
\* walk leaves the deque.
b6_deque_walk(d, curr, direction) ==
    IF curr = NULL \/ ~is_direction(direction)
    THEN [ret |-> NULL, ok |-> FALSE]
    ELSE IF direction = B6_NEXT THEN [ret |-> d.ref[curr], ok |-> TRUE]
    ELSE IF curr = deque_tail THEN [ret |-> d.last, ok |-> TRUE]
    ELSE IF curr = deque_head THEN [ret |-> NULL, ok |-> TRUE]
    ELSE deque_before(d, deque_head, curr)

b6_deque_first(d) == d.ref[deque_head]

b6_deque_last_as_first(d) ==
    IF d.ref[deque_head] = deque_tail THEN deque_tail
    ELSE b6_deque_walk(d, deque_tail, B6_PREV).ret

b6_deque_last(d) == b6_deque_walk(d, deque_tail, B6_PREV).ret

b6_deque_empty(d) == b6_deque_first(d) = deque_tail

b6_deque_add_after_keeps_last(d, prev, sref) ==
    IF prev = NULL \/ sref = NULL THEN [deque |-> d, ret |-> NULL, ok |-> FALSE]
    ELSE IF d.ref[prev] = NULL THEN [deque |-> d, ret |-> NULL, ok |-> FALSE]
    ELSE [deque |-> [d EXCEPT !.ref[sref] = d.ref[prev], !.ref[prev] = sref],
          ret |-> sref, ok |-> TRUE]

\* Yields [deque, ret, ok]; ok is FALSE when a precondition is violated.
b6_deque_add_after(d, prev, sref) ==
    LET next == d.ref[prev]
        d1   == IF prev = d.last THEN [d EXCEPT !.last = sref] ELSE d
    IN  IF prev = NULL THEN [deque |-> d, ret |-> NULL, ok |-> FALSE]
        ELSE IF next = NULL THEN [deque |-> d, ret |-> NULL, ok |-> FALSE]
        ELSE IF sref = NULL THEN [deque |-> d1, ret |-> NULL, ok |-> FALSE]
        ELSE [deque |-> [d1 EXCEPT !.ref[sref] = next, !.ref[prev] = sref],
              ret |-> sref, ok |-> TRUE]

b6_deque_del_after_moves_last(d, prev) ==
    LET curr == d.ref[prev]
        d1   == IF curr = d.last THEN [d EXCEPT !.last = prev] ELSE d
    IN  IF prev = NULL THEN [deque |-> d, ret |-> NULL, ok |-> FALSE]
        ELSE IF curr = deque_tail \/ curr = NULL
        THEN [deque |-> [d EXCEPT !.last = prev], ret |-> NULL, ok |-> FALSE]
        ELSE [deque |-> [d1 EXCEPT !.ref[prev] = d1.ref[curr],
                                   !.ref[curr] = NULL],
              ret |-> curr, ok |-> TRUE]

\* Yields [deque, ret, ok].
b6_deque_del_after(d, prev) ==
    LET curr == d.ref[prev]
        d1   == IF curr = d.last THEN [d EXCEPT !.last = prev] ELSE d
    IN  IF prev = NULL THEN [deque |-> d, ret |-> NULL, ok |-> FALSE]
        ELSE IF curr = deque_tail \/ curr = NULL
        THEN [deque |-> d1, ret |-> NULL, ok |-> FALSE]
        ELSE [deque |-> [d1 EXCEPT !.ref[prev] = d1.ref[curr],
                                   !.ref[curr] = NULL],
              ret |-> curr, ok |-> TRUE]

\* Yields [deque, ret, ok].
b6_deque_add(d, next, sref) ==
    LET after(w) == IF ~w.ok THEN [deque |-> d, ret |-> NULL, ok |-> FALSE]
                    ELSE b6_deque_add_after(d, w.ret, sref)
    IN  after(b6_deque_walk(d, next, B6_PREV))

\* Yields [deque, ret, ok].
b6_deque_del(d, sref) ==
    LET after(w) == IF ~w.ok THEN [deque |-> d, ret |-> NULL, ok |-> FALSE]
                    ELSE b6_deque_del_after(d, w.ret)
    IN  after(b6_deque_walk(d, sref, B6_PREV))

b6_deque_add_first(d, sref) == b6_deque_add_after(d, deque_head, sref)

b6_deque_add_last_as_first(d, sref) ==
    b6_deque_add_after(d, deque_head, sref)

b6_deque_add_last(d, sref) == b6_deque_add_after(d, d.last, sref)

b6_deque_del_first(d) == b6_deque_del_after(d, deque_head)

b6_deque_del_last(d) == b6_deque_del(d, d.last)

\* The references of the deque, first to last.
RECURSIVE deque_from(_, _)
deque_from(d, a) ==
    IF a = deque_tail \/ a = NULL THEN <<>>
    ELSE <<a>> \o deque_from(d, d.ref[a])

deque_seq(d) == deque_from(d, b6_deque_first(d))

(***************************************************************************)
(* List of chunks, first to last.                                          *)
(***************************************************************************)
b6_list_initialize == <<>>

b6_list_empty(l) == l = <<>>

b6_list_first(l) == l[1]

b6_list_add_first(l, dref) == <<dref>> \o l

b6_list_del(l, dref) == SelectSeq(l, LAMBDA x : x # dref)

(***************************************************************************)
(* Fixed-width arithmetic of b6_pool_initialize.                           *)
(***************************************************************************)
(* Vector.  A vector is the struct b6_vector [itemsize, capacity, length,  *)
(* buffer] with two fields of the model: bytes, the size the allocator     *)
(* granted for buffer, and items, the contents of the slots below length   *)
(* (the slots above are never read before they are written).               *)
(***************************************************************************)
ULongMod == 2 ^ ULongBits

\* ~0UL
ULongMax == ULongMod - 1

to_ulong(x) == x % ULongMod

\* The moduli of unsigned long long in the builds: twice as wide as
\* unsigned long (ILP32, LLP64) or as wide (LP64).
ULLongMods == {ULongMod * ULongMod, ULongMod}

\* Address of the buffer the allocator hands out.
BufBase == 100

b6_vector_initialize(itemsize) ==
    [itemsize |-> itemsize, capacity |-> 0, length |-> 0, buffer |-> NULL,
     bytes |-> 0, items |-> <<>>]

\* The slots of the buffer.
vector_slots(self) == self.bytes \div self.itemsize

\* The for loop of b6_vector_expand: the capacity it ends with, -1 when it
\* returns NULL, -2 when it never ends (the candidate stays 0).
RECURSIVE expand_loop(_, _, _)
expand_loop(self, n, capacity) ==
    IF n >= to_ulong(capacity - self.length)
    THEN IF capacity < self.capacity THEN -1
         ELSE IF capacity = 0 THEN -2
         ELSE expand_loop(self, n, to_ulong(capacity * 2))
    ELSE capacity

\* Yields the vector, ret (NULL or the buffer) and hang; ull is the
\* modulus of unsigned long long, grant whether the allocator answers the
\* request with a buffer.
b6_vector_expand(self, n, ull, grant) ==
    LET size(capacity) == (self.itemsize * capacity) % ull
        grown(capacity) ==
            IF size(capacity) > ULongMax \/ ~grant
            THEN [self |-> self, ret |-> NULL, hang |-> FALSE]
            ELSE [self |-> [self EXCEPT !.buffer = BufBase,
                                        !.bytes = to_ulong(size(capacity)),
                                        !.capacity = capacity],
                  ret |-> BufBase, hang |-> FALSE]
        looped(capacity) ==
            IF capacity < 0
            THEN [self |-> self, ret |-> NULL, hang |-> capacity = -2]
            ELSE grown(capacity)
    IN  looped(expand_loop(self, n,
                           IF self.capacity # 0
                           THEN to_ulong(self.capacity * 2) ELSE 2))

\* What ops->move(self, dst, src, m) makes of items when it moves m items
\* from slot src to slot dst, the vector keeping len items.
move(items, dst, src, m, len) ==
    [k \in 1 .. len |->
        IF k - 1 >= dst /\ k - 1 < dst + m
        THEN items[src + (k - 1 - dst) + 1]
        ELSE IF k <= Len(items) THEN items[k]
        ELSE 0]

\* Yields the vector, ret (NULL or the address of the slot), moved (ops->move
\* was called), hang and ok (FALSE when ops->move is told to write outside
\* the buffer).  The items of the n new slots are 0 until the caller
\* writes them.
b6_vector_add(self, index_arg, n, ull, grant) ==
    LET index == IF index_arg > self.length THEN self.length ELSE index_arg
        s == (self.itemsize * index) % ull
        d == (self.itemsize * n) % ull
        fail == [self |-> self, ret |-> NULL, moved |-> FALSE,
                 hang |-> FALSE, ok |-> TRUE]
        slot(v) == IF v.buffer = NULL /\ to_ulong(s) = 0 THEN NULL
                   ELSE v.buffer + to_ulong(s)
        shifted(v) ==
            [v EXCEPT !.items = move(v.items, index + n, index,
                                     v.length - index, v.length + n),
                      !.length = to_ulong(v.length + n)]
        placed(v) ==
            [self |-> shifted(v), ret |-> slot(v),
             moved |-> v.length - index # 0, hang |-> FALSE,
             ok |-> v.length - index # 0 =>
                        v.length + n <= vector_slots(v)]
        expanded(e) ==
            IF e.ret = NULL
            THEN [self |-> self, ret |-> NULL, moved |-> FALSE,
                  hang |-> e.hang, ok |-> TRUE]
            ELSE placed(e.self)
    IN  IF s > ULongMax THEN fail
        ELSE IF n = 0
        THEN [self |-> self, ret |-> slot(self), moved |-> FALSE,
              hang |-> FALSE, ok |-> TRUE]
        ELSE IF d > ULongMax THEN fail
        ELSE IF to_ulong(self.length + n) < self.length THEN fail
        ELSE IF to_ulong(self.length + n) > self.capacity
        THEN expanded(b6_vector_expand(self, n, ull, grant))
        ELSE placed(self)

\* Yields the vector, ret (the count), moved and ok.
b6_vector_del(self, index, n_arg, ull) ==
    LET m == self.length - index
        s == (self.itemsize * index) % ull
        d == (self.itemsize * n_arg) % ull
        none == [self |-> self, ret |-> 0, moved |-> FALSE, ok |-> TRUE]
        job_done(v, n, moved, ok) ==
            [self |-> [v EXCEPT !.length = v.length - n,
                                !.items = SubSeq(v.items, 1, v.length - n)],
             ret |-> n, moved |-> moved, ok |-> ok]
    IN  IF n_arg = 0 THEN none
        ELSE IF index >= self.length THEN none
        ELSE IF n_arg >= m THEN job_done(self, m, FALSE, TRUE)
        ELSE IF s > ULongMax THEN none
        ELSE IF d > ULongMax THEN none
        ELSE job_done([self EXCEPT !.items =
                           move(self.items, index + n_arg, index, m,
                                self.length)],
                      n_arg, TRUE,
                      index + n_arg + m <= vector_slots(self))

(***************************************************************************)
UnsignedMod == 2 ^ UnsignedBits
SizeTMod == 2 ^ (2 * UnsignedBits)

to_unsigned(x) == x % UnsignedMod
to_size_t(x) == x % SizeTMod

\* The loop of b6_pool_initialize that chooses chunk_size: -1 on the
\* overflow test, else the chosen chunk_size.
RECURSIVE choose_chunk_size(_, _)
choose_chunk_size(chunk_size, size) ==
    IF to_size_t(chunk_size - HeaderSize - PtrSize) < size
    THEN IF chunk_size = 0 THEN -1
         ELSE choose_chunk_size(to_unsigned(chunk_size * 2), size)
    ELSE chunk_size

\* Yields the return value and the size and chunk_size stored in the pool.
b6_pool_initialize(size_arg, chunk_size_arg) ==
    LET size  == to_unsigned(
                     ((size_arg + (PtrSize - 1)) \div PtrSize) * PtrSize)
        chunk == IF chunk_size_arg = 0
                 THEN choose_chunk_size(MinChunkSize, size)
                 ELSE IF chunk_size_arg < PtrSize + HeaderSize
                         \/ to_size_t(chunk_size_arg - PtrSize - HeaderSize)
                                < size
                 THEN -1
                 ELSE chunk_size_arg
    IN  IF chunk = -1
        THEN [ret |-> -1, size |-> size, chunk_size |-> 0]
        ELSE [ret |-> 0, size |-> size,
              chunk_size |-> to_unsigned(chunk - (PtrSize + HeaderSize))]


(***************************************************************************)
(* The pool.  A machine m is [pool, chunk, blocks, crashed]:                *)
(*   pool    the struct b6_pool;                                           *)
(*   chunk   block address -> the header fields of struct b6_chunk;        *)
(*   blocks  the blocks currently allocated from the underlying allocator; *)
(*   crashed TRUE once the process died on a violated precondition or an   *)
(*           access through a null or indeterminate pointer.               *)
(***************************************************************************)
\* The header of a block that initialize_chunk has not written.
NoChunk == [free |-> 0, used |-> 0, index |-> 0, flag |-> 0]

crash(m) == [m EXCEPT !.crashed = TRUE]

initialize_chunk(m, chunk) ==
    IF chunk = Wild THEN crash(m)
    ELSE
    LET t   == m.pool.tree
        cmp == [ref \in DOMAIN t |-> IF ref < chunk THEN -1 ELSE 1]
        s   == b6_tree_search(t, cmp)
    IN  [m EXCEPT
            !.chunk[chunk] = [free  |-> m.pool.chunk_size,
                              used  |-> 0,
                              index |-> HeaderSize,
                              flag  |-> 1],
            !.pool.list = b6_list_add_first(@, chunk),
            !.pool.tree = b6_tree_insert(b6_avl_tree, t, s.top, s.dir, chunk)]

\* b6_tree_del(tree, top, dir) of the interface pool.c is written against:
\* removes the child of top in direction dir.  A vacant position violates
\* the precondition of the removal.
b6_tree_del_at(m, top, dir) ==
    LET t == m.pool.tree
    IN  IF ~has_child(t, top, dir) THEN crash(m)
        ELSE [m EXCEPT !.pool.tree = b6_tree_del(b6_avl_tree, t, t[top].ref[dir])]

finalize_chunk(m, chunk) ==
    LET s1(u) == IF chunk = u.pool.curr THEN [u EXCEPT !.pool.curr = NULL]
                 ELSE u
        s2(u) == [u EXCEPT !.pool.list = b6_list_del(@, chunk)]
        found(u, s) == b6_tree_del_at(u, s.top, s.dir)
        s3(u) == found(u, b6_tree_search(u.pool.tree,
                     [ref \in DOMAIN u.pool.tree |->
                         IF ref < chunk THEN -1
                         ELSE IF ref + u.pool.chunk_size > chunk THEN 1
                         ELSE 0]))
    IN  IF chunk = Wild THEN crash(m) ELSE s3(s2(s1(m)))

\* a is the answer of the underlying allocator, should it be asked.
\* Yields the machine and the chunk.
allocate_chunk(m, a) ==
    LET chunk == m.pool.free
    IN  IF chunk = NULL
        THEN [m |-> IF a = NULL THEN m
                    ELSE [m EXCEPT !.blocks = @ \cup {a}],
              chunk |-> a]
        ELSE [m |-> [m EXCEPT !.pool.free = NULL], chunk |-> chunk]

release_chunk(m, chunk) ==
    IF m.pool.free = NULL
    THEN [m EXCEPT !.pool.free = chunk]
    ELSE [m EXCEPT !.blocks = @ \ {chunk}]

find_chunk(m, ptr) ==
    LET t   == m.pool.tree
        cmp == [ref \in DOMAIN t |->
                   IF ref > ptr THEN 1
                   ELSE IF ref + m.pool.chunk_size < ptr THEN -1
                   ELSE 0]
    IN  b6_tree_search(t, cmp).ref

\* The loop of b6_pool_get over the recycle queue.  Yields the machine, the
\* slot found (NULL if the queue ran empty) and whether a slot was found.
RECURSIVE get_recycled(_)
get_recycled(m) ==
    LET \* finalize_chunk(pool, chunk); release_chunk(pool, chunk);
        completed(u, chunk) ==
            IF u.chunk[chunk].free # u.pool.chunk_size THEN u
            ELSE LET finalized(v) == IF v.crashed THEN v
                                     ELSE release_chunk(v, chunk)
                 IN  finalized(finalize_chunk(u, chunk))
        looped(u) == IF u.crashed
                     THEN [m |-> u, ret |-> NULL, found |-> FALSE]
                     ELSE get_recycled(u)
        popped(u, sref, chunk) ==
            IF chunk = NULL
            THEN [m |-> crash(u), ret |-> NULL, found |-> FALSE]
            ELSE IF u.chunk[chunk].flag = 0
            THEN [m |-> [u EXCEPT !.chunk[chunk].used = @ + 1],
                  ret |-> sref, found |-> TRUE]
            ELSE looped(completed(
                     [u EXCEPT !.chunk[chunk].free = @ + u.pool.size], chunk))
        located(u, sref) == popped(u, sref, find_chunk(u, sref))
        deleted(d) == located([m EXCEPT !.pool.queue = d.deque], d.ret)
    IN  IF b6_deque_empty(m.pool.queue)
        THEN [m |-> m, ret |-> NULL, found |-> FALSE]
        ELSE deleted(b6_deque_del_first(m.pool.queue))

\* A faulty get_new_chunk: curr is forgotten when no chunk could be had.
get_new_chunk_drops_curr(m, a) ==
    LET initialized(u, chunk) ==
            [m  |-> IF u.crashed THEN u ELSE [u EXCEPT !.pool.curr = chunk],
             ok |-> ~u.crashed]
        allocated(ac) ==
            IF ac.chunk = NULL
            THEN [m |-> [ac.m EXCEPT !.pool.curr = NULL], ok |-> FALSE]
            ELSE initialized(initialize_chunk(ac.m, ac.chunk), ac.chunk)
    IN  IF m.pool.curr = Wild THEN [m |-> crash(m), ok |-> FALSE]
        ELSE IF m.pool.curr = NULL
                \/ m.chunk[m.pool.curr].index + m.pool.size > m.pool.chunk_size
        THEN allocated(allocate_chunk(m, a))
        ELSE [m |-> m, ok |-> TRUE]

\* The part of b6_pool_get that makes sure curr has room: yields the machine
\* and ok, FALSE when no chunk could be had.
get_new_chunk(m, a) ==
    LET initialized(u, chunk) ==
            [m  |-> IF u.crashed THEN u ELSE [u EXCEPT !.pool.curr = chunk],
             ok |-> ~u.crashed]
        allocated(ac) ==
            IF ac.chunk = NULL THEN [m |-> ac.m, ok |-> FALSE]
            ELSE initialized(initialize_chunk(ac.m, ac.chunk), ac.chunk)
    IN  IF m.pool.curr = Wild THEN [m |-> crash(m), ok |-> FALSE]
        ELSE IF m.pool.curr = NULL
                \/ m.chunk[m.pool.curr].index + m.pool.size > m.pool.chunk_size
        THEN allocated(allocate_chunk(m, a))
        ELSE [m |-> m, ok |-> TRUE]

\* A faulty get_bump: index is left where it was.
get_bump_keeps_index(m) ==
    LET curr == m.pool.curr
        m1   == [m EXCEPT !.chunk[curr].used = @ + 1,
                          !.chunk[curr].free = @ - m.pool.size]
    IN  [m |-> m1, ret |-> curr + m1.chunk[curr].index + m.pool.size]

\* The bump allocation ending b6_pool_get.
get_bump(m) ==
    LET curr == m.pool.curr
        m1   == [m EXCEPT !.chunk[curr].used = @ + 1,
                          !.chunk[curr].free = @ - m.pool.size,
                          !.chunk[curr].index = @ + m.pool.size]
    IN  [m |-> m1, ret |-> curr + m1.chunk[curr].index]

\* Yields the machine and the pointer returned (NULL for absent).
b6_pool_get(m, a) ==
    LET chunked(n) == IF ~n.ok THEN [m |-> n.m, ret |-> NULL]
                      ELSE get_bump(n.m)
        recycled(r) == IF r.m.crashed \/ r.found
                       THEN [m |-> r.m, ret |-> r.ret]
                       ELSE chunked(get_new_chunk(r.m, a))
    IN  recycled(get_recycled(m))

\* A faulty b6_pool_put: used is not decremented.
b6_pool_put_keeps_used(m, ptr) ==
    LET chunk == find_chunk(m, ptr)
        d     == b6_deque_add_first(m.pool.queue, ptr)
        m1    == [m EXCEPT !.pool.queue = d.deque]
    IN  IF ~d.ok \/ chunk = NULL \/ ptr \in m.blocks THEN crash(m1)
        ELSE [m1 EXCEPT !.chunk[chunk].flag =
                            IF m1.chunk[chunk].used = 0 THEN 1 ELSE 0]

\* A faulty b6_pool_put: flag is left as it was.
b6_pool_put_keeps_flag(m, ptr) ==
    LET chunk == find_chunk(m, ptr)
        d     == b6_deque_add_first(m.pool.queue, ptr)
        m1    == [m EXCEPT !.pool.queue = d.deque]
    IN  IF ~d.ok \/ chunk = NULL \/ ptr \in m.blocks THEN crash(m1)
        ELSE [m1 EXCEPT !.chunk[chunk].used = @ - 1]

\* The link of the queue is written at ptr: where ptr is the address of a
\* block in use, it lands on the tree reference of the chunk there and the
\* tree is lost.
b6_pool_put(m, ptr) ==
    LET chunk == find_chunk(m, ptr)
        d     == b6_deque_add_first(m.pool.queue, ptr)
        m1    == [m EXCEPT !.pool.queue = d.deque]
    IN  IF ~d.ok \/ chunk = NULL \/ ptr \in m.blocks THEN crash(m1)
        ELSE LET m2 == [m1 EXCEPT !.chunk[chunk].used = @ - 1]
             IN  [m2 EXCEPT !.chunk[chunk].flag =
                                IF m2.chunk[chunk].used = 0 THEN 1 ELSE 0]

\* The loop of b6_pool_finalize over the list of chunks.
RECURSIVE finalize_list(_)
finalize_list(m) ==
    LET finalized(u, chunk) == IF u.crashed THEN u
                               ELSE finalize_list(release_chunk(u, chunk))
    IN  IF b6_list_empty(m.pool.list) THEN m
        ELSE finalized(finalize_chunk(m, b6_list_first(m.pool.list)),
                       b6_list_first(m.pool.list))

b6_pool_finalize(m) ==
    LET released(u) == IF u.crashed THEN u
                       ELSE release_chunk(u, u.pool.free)
        listed(u) == IF u.crashed \/ u.pool.free = NULL THEN u
                     ELSE released(finalize_chunk(u, u.pool.free))
    IN  listed(finalize_list(m))

(***************************************************************************)
(* The pool behind the allocator interface.  b6_pool_initialize stores in  *)
(* pool->parent.ops the address of a table local to its own frame, and the *)
(* three entry points recover the pool from self with the offset of the    *)
(* member allocator although self is the member parent.  intact tells      *)
(* whether the dead frame still holds the table when the call is made;     *)
(* foreign_size is the value found where the displaced pool has its size.  *)
(* Every access to the displaced pool beyond that read ends the process.   *)
(***************************************************************************)
b6_pool_allocate(m, foreign_size, size) ==
    IF size > foreign_size
    THEN [m |-> m, ret |-> NULL]
    ELSE [m |-> crash(m), ret |-> NULL]

b6_pool_reallocate(m, foreign_size, ptr, size) ==
    IF size > foreign_size
    THEN [m |-> m, ret |-> NULL]
    ELSE [m |-> m, ret |-> ptr]

b6_pool_deallocate(m, ptr) == crash(m)

b6_allocate(m, intact, foreign_size, size) ==
    IF ~intact THEN [m |-> crash(m), ret |-> NULL]
    ELSE b6_pool_allocate(m, foreign_size, size)

b6_reallocate(m, intact, foreign_size, ptr, size) ==
    IF ptr = NULL THEN b6_allocate(m, intact, foreign_size, size)
    ELSE IF ~intact THEN [m |-> crash(m), ret |-> NULL]
    ELSE b6_pool_reallocate(m, foreign_size, ptr, size)

b6_deallocate(m, intact, ptr) ==
    IF ~intact THEN crash(m) ELSE b6_pool_deallocate(m, ptr)

(***************************************************************************)
(* The threaded splay tree of include/b6/splay.h.  A link is an address,   *)
(* even for a child, odd (low bit set) for a thread.  The node with key k  *)
(* lies at address 2k, the sentinel splay->dref and the local bak of       *)
(* b6_splay_search above the nodes.  A tree is [root, mem]: root is        *)
(* splay->dref.ref[0], mem maps the address of a node or of bak to its two *)
(* links.                                                                  *)
(***************************************************************************)
ThreadNodes == {2 * k : k \in 1 .. MaxThreadKeys}
splay_dref == 2 * (MaxThreadKeys + 1)
splay_bak == 2 * (MaxThreadKeys + 2)

b6_splay_is_thread(dref) == dref % 2 = 1

b6_splay_to_thread(dref) == IF dref % 2 = 1 THEN dref ELSE dref + 1

b6_splay_from_thread(dref) == dref - (dref % 2)

b6_splay_root(t) == t.root

threaded_empty(t) == b6_splay_is_thread(b6_splay_root(t))

\* __b6_splay_dive(ref, dir): the last node reached from ref by following
\* the children in direction dir.
RECURSIVE threaded_dive(_, _, _)
threaded_dive(t, ref, dir) ==
    IF b6_splay_is_thread(t.mem[ref].ref[dir]) THEN ref
    ELSE threaded_dive(t, t.mem[ref].ref[dir], dir)

\* b6_splay_walk of splay.h.
threaded_walk(t, dref, dir) ==
    IF dref = splay_dref
    THEN IF b6_splay_is_thread(b6_splay_root(t)) THEN dref
         ELSE threaded_dive(t, b6_splay_root(t), Xor1(dir))
    ELSE IF b6_splay_is_thread(t.mem[dref].ref[dir])
    THEN b6_splay_from_thread(t.mem[dref].ref[dir])
    ELSE threaded_dive(t, t.mem[dref].ref[dir], Xor1(dir))

threaded_first(t) == threaded_walk(t, splay_dref, B6_NEXT)

threaded_last(t) == threaded_walk(t, splay_dref, B6_PREV)

\* The default comparison of a node with the key arg.
threaded_cmp(top, arg) == b6_sign_of(top - 2 * arg)

\* The while loop of b6_splay_search: m is the memory, lnk the two link
\* ends, opp and dir the values left by the previous turn.  Yields the
\* memory, top, lnk, opp, dir and res at the exit of the loop.
RECURSIVE threaded_loop(_, _, _, _, _, _)
threaded_loop(m, top, lnk, opp0, dir0, arg) ==
    LET res == threaded_cmp(top, arg)
        opp == BitAnd(Shr1(res), 1)
        dir == Xor1(opp)
        out(u, tp, o, d) == [mem |-> u, top |-> tp, lnk |-> lnk,
                             opp |-> o, dir |-> d, res |-> res]
        \* lnk[opp]->ref[dir] = top; lnk[opp] = top; top = top->ref[dir];
        down(u, tp) ==
            LET u1 == [u EXCEPT ![lnk[opp]].ref[dir] = tp]
            IN  threaded_loop(u1, u1[tp].ref[dir],
                              [lnk EXCEPT ![opp] = tp], opp, dir, arg)
        \* the rotation made when the child compares as top does
        zig(u, swp) ==
            LET u1 == [u EXCEPT ![top].ref[dir] =
                          IF b6_splay_is_thread(u[swp].ref[opp])
                          THEN b6_splay_to_thread(swp)
                          ELSE u[swp].ref[opp]]
                u2 == [u1 EXCEPT ![swp].ref[opp] = top]
            IN  IF b6_splay_is_thread(u2[swp].ref[dir])
                THEN out(u2, swp, opp, dir)
                ELSE down(u2, swp)
    IN  IF res = 0 THEN out(m, top, opp0, dir0)
        ELSE IF b6_splay_is_thread(m[top].ref[dir])
        THEN out(m, top, opp, dir)
        ELSE IF res = threaded_cmp(m[top].ref[dir], arg)
        THEN zig(m, m[top].ref[dir])
        ELSE down(m, top)

\* b6_splay_search of splay.h with the default comparison; junk is what the
\* local bak holds before it is written.  Yields the tree and res.
threaded_search(t, arg, junk) ==
    LET m0 == [a \in DOMAIN t.mem \cup {splay_bak} |->
                  IF a = splay_bak
                  THEN [ref |-> [d \in 0 .. 1 |-> junk]]
                  ELSE t.mem[a]]
        joined(r) ==
            LET top == r.top
                opp == r.opp
                dir == r.dir
                m1  == IF b6_splay_to_thread(r.lnk[opp]) # r.mem[top].ref[opp]
                       THEN [r.mem EXCEPT ![r.lnk[opp]].ref[dir] =
                                              r.mem[top].ref[opp]]
                       ELSE [r.mem EXCEPT ![r.lnk[opp]].ref[dir] =
                                              b6_splay_to_thread(top)]
                m2  == [m1 EXCEPT ![r.lnk[dir]].ref[opp] = m1[top].ref[dir]]
                m3  == [m2 EXCEPT ![top].ref[B6_PREV] =
                                      m2[splay_bak].ref[B6_NEXT]]
                m4  == [m3 EXCEPT ![top].ref[B6_NEXT] =
                                      m3[splay_bak].ref[B6_PREV]]
            IN  [tree |-> [root |-> top,
                           mem  |-> [a \in DOMAIN t.mem |-> m4[a]]],
                 res |-> r.res]
    IN  IF b6_splay_is_thread(b6_splay_root(t))
        THEN [tree |-> t, res |-> 1]
        ELSE joined(threaded_loop(m0, b6_splay_root(t),
                                  [d \in 0 .. 1 |-> splay_bak], 1, 0, arg))

(***************************************************************************)
(* State.                                                                  *)
(***************************************************************************)
VARIABLES
    tree,    \* the b6_tree under test: node address -> b6_tref
    ops,     \* its discipline, b6_avl_tree or b6_rb_tree
    tret,    \* the last tree call and what it returned
    pool,    \* the struct b6_pool
    chunks,  \* block address -> header fields of the struct b6_chunk there
    blocks,  \* blocks currently allocated from the underlying allocator
    crashed, \* the process died
    live,    \* pointers returned by b6_pool_get and not yet put
    pret,    \* the last pool call, its arguments and what it returned
    args,    \* the arguments of b6_pool_initialize
    init,    \* what b6_pool_initialize returned and stored
    pair,    \* an AVL and a red-black tree given the same calls
    splay,   \* the struct b6_splay under test and the nodes it links
    sret,    \* the last splay call, its argument and what it returned
    vector,  \* the struct b6_vector under test and its contents
    vret,    \* the build, the last vector call and what it returned
    deque,   \* the struct b6_deque under test and the references it links
    dret,    \* the last deque call, its arguments and what it returned
    threaded, \* the threaded splay tree of splay.h and the memory of its nodes
    thret    \* the last call on the threaded splay tree and what it returned

treeVars == <<tree, ops, tret>>
poolVars == <<pool, chunks, blocks, crashed, live, pret>>
initVars == <<args, init>>
pairVars == <<pair>>
splayVars == <<splay, sret>>
vectorVars == <<vector, vret>>
dequeVars == <<deque, dret>>
threadedVars == <<threaded, thret>>
vars == <<tree, ops, tret, pool, chunks, blocks, crashed, live, pret, args, init,
          pair, splay, sret, vector, vret, deque, dret, threaded, thret>>

\* The node under root.ref[PREV], where b6_tree_check starts.
tree_top(t) == t[tree_root].ref[B6_PREV]

\* The nodes linked in the tree, sentinels included.
linked(t) == subtree(t, tree_top(t))

\* The values the variables of a component keep while another one runs.
TreeIdle ==
    /\ ops = b6_avl_tree
    /\ tree = b6_tree_initialize({})
    /\ tret = [op |-> "idle", ref |-> NULL, ret |-> NULL, ok |-> TRUE,
               trail |-> <<>>]

PoolIdle ==
    /\ pool = NULL
    /\ chunks = <<>>
    /\ blocks = {}
    /\ crashed = FALSE
    /\ live = {}
    /\ pret = [op |-> "idle"]

InitIdle ==
    /\ args = [size |-> 0, chunk_size |-> 0]
    /\ init = [called |-> FALSE, ret |-> 0, size |-> 0, chunk_size |-> 0]

PairIdle == pair = [op |-> "idle"]

SplayIdle ==
    /\ splay = NULL
    /\ sret = [op |-> "idle"]

VectorIdle ==
    /\ vector = NULL
    /\ vret = [op |-> "idle"]

DequeIdle ==
    /\ deque = NULL
    /\ dret = [op |-> "idle"]

ThreadedIdle ==
    /\ threaded = NULL
    /\ thret = [op |-> "idle"]

(***************************************************************************)
(* The balanced tree driven as tst/tree.c drives it: any sequence of adds  *)
(* of detached nodes and dels of linked nodes.                             *)
(***************************************************************************)
TreeInit ==
    /\ ops \in {b6_avl_tree, b6_rb_tree}
    /\ tree = b6_tree_initialize(Keys)
    /\ tret = [op |-> "init", ref |-> NULL, ret |-> NULL, ok |-> TRUE,
               trail |-> <<>>]
    /\ PoolIdle
    /\ InitIdle
    /\ PairIdle
    /\ SplayIdle
    /\ VectorIdle
    /\ DequeIdle
    /\ ThreadedIdle

\* tree->comp when b6_tree_initialize was given no comparator.
tree_comp(t) ==
    [p \in (DOMAIN t) \X (DOMAIN t) |-> default_compare(p[1], p[2])]

TreeAdd(k) ==
    /\ tret.ok
    /\ k \notin linked(tree)
    /\ LET added(r) == /\ tree' = r.tree
                       /\ tret' = [op |-> "add", ref |-> k, ret |-> r.ret,
                                   ok |-> r.ok, trail |-> r.trail]
       IN  added(b6_tree_add(ops, tree, tree_comp(tree), k))
    /\ UNCHANGED <<ops, poolVars, initVars, pairVars, splayVars, vectorVars, dequeVars, threadedVars>>

TreeDel(k) ==
    /\ tret.ok
    /\ k \in linked(tree)
    /\ tree' = b6_tree_del(ops, tree, k)
    /\ tret' = [op |-> "del", ref |-> k, ret |-> k, ok |-> TRUE,
                trail |-> <<>>]
    /\ UNCHANGED <<ops, poolVars, initVars, pairVars, splayVars, vectorVars, dequeVars, threadedVars>>

\* The examine functions callers pass to b6_tree_search for the key k: the
\* sign of the difference of the keys, or the difference itself.
Examines == {"sign", "difference"}

examine(how, ref, k) ==
    IF how = "sign" THEN b6_sign_of(ref - k) ELSE ref - k

TreeSearch(k, how) ==
    /\ tret.ok
    /\ LET found(s) == tret' = [op |-> "search", ref |-> k, ret |-> s.ref,
                                ok |-> s.ok, trail |-> s.trail]
       IN  found(b6_tree_search(tree,
                                [r \in DOMAIN tree |-> examine(how, r, k)]))
    /\ UNCHANGED <<tree, ops, poolVars, initVars, pairVars, splayVars, vectorVars, dequeVars, threadedVars>>

TreeNext ==
    \/ \E k \in Keys : TreeAdd(k)
    \/ \E k \in Keys : TreeDel(k)
    \/ \E k \in Keys, how \in Examines : TreeSearch(k, how)

SpecTree == TreeInit /\ [][TreeNext]_vars

(***************************************************************************)
(* The balanced tree with a comparator of the caller's: the nodes carry a  *)
(* value, as struct node of the tests does, and two nodes can carry the    *)
(* same value.                                                             *)
(***************************************************************************)
CompKeys == 1 .. MaxCompKeys

Twins == (MaxKeys + 1) .. (MaxKeys + MaxTwins)

\* tree->comp when b6_tree_initialize was given node_cmp.
node_comp(t) ==
    [p \in (DOMAIN t) \X (DOMAIN t) |-> node_cmp(p[1], p[2])]

CompInit ==
    /\ ops \in {b6_avl_tree, b6_rb_tree}
    /\ tree = b6_tree_initialize(CompKeys \cup Twins)
    /\ tret = [op |-> "init", ref |-> NULL, ret |-> NULL, ok |-> TRUE,
               trail |-> <<>>]
    /\ PoolIdle
    /\ InitIdle
    /\ PairIdle
    /\ SplayIdle
    /\ VectorIdle
    /\ DequeIdle
    /\ ThreadedIdle

CompAdd(n) ==
    /\ n \notin linked(tree)
    /\ LET added(r) == /\ tree' = r.tree
                       /\ tret' = [op |-> "add", ref |-> n, ret |-> r.ret,
                                   ok |-> r.ok, trail |-> <<>>]
       IN  added(b6_tree_add(ops, tree, node_comp(tree), n))
    /\ UNCHANGED <<ops, poolVars, initVars, pairVars, splayVars, vectorVars, dequeVars, threadedVars>>

CompDel(n) ==
    /\ n \in linked(tree)
    /\ tree' = b6_tree_del(ops, tree, n)
    /\ tret' = [op |-> "del", ref |-> n, ret |-> n, ok |-> TRUE,
                trail |-> <<>>]
    /\ UNCHANGED <<ops, poolVars, initVars, pairVars, splayVars, vectorVars, dequeVars, threadedVars>>

CompNext ==
    \/ \E n \in CompKeys \cup Twins : CompAdd(n)
    \/ \E n \in CompKeys \cup Twins : CompDel(n)

SpecTreeComp == CompInit /\ [][CompNext]_vars

(***************************************************************************)
(* Two trees, one of each discipline, given the same calls: adds of any    *)
(* node, linked or not, and removals by key.                               *)
(***************************************************************************)
PairKeys == 1 .. MaxPairKeys

PairInit ==
    /\ pair = [op |-> "init", ref |-> NULL,
               avl |-> b6_tree_initialize(PairKeys), avl_ret |-> NULL,
               rb  |-> b6_tree_initialize(PairKeys), rb_ret  |-> NULL]
    /\ TreeIdle
    /\ PoolIdle
    /\ InitIdle
    /\ SplayIdle
    /\ VectorIdle
    /\ DequeIdle
    /\ ThreadedIdle

PairAdd(k) ==
    /\ LET added(a, r) ==
               pair' = [op |-> "add", ref |-> k,
                        avl |-> a.tree, avl_ret |-> a.ret,
                        rb  |-> r.tree, rb_ret  |-> r.ret]
       IN  added(b6_tree_add(b6_avl_tree, pair.avl, tree_comp(pair.avl), k),
                 b6_tree_add(b6_rb_tree, pair.rb, tree_comp(pair.rb), k))
    /\ UNCHANGED <<treeVars, poolVars, initVars, splayVars, vectorVars, dequeVars, threadedVars>>

PairRemove(k) ==
    /\ LET removed(a, r) ==
               pair' = [op |-> "remove", ref |-> k,
                        avl |-> a.tree, avl_ret |-> a.ret,
                        rb  |-> r.tree, rb_ret  |-> r.ret]
       IN  removed(b6_tree_remove(b6_avl_tree, pair.avl,
                       [n \in DOMAIN pair.avl |-> examine("sign", n, k)]),
                   b6_tree_remove(b6_rb_tree, pair.rb,
                       [n \in DOMAIN pair.rb |-> examine("sign", n, k)]))
    /\ UNCHANGED <<treeVars, poolVars, initVars, splayVars, vectorVars, dequeVars, threadedVars>>

PairNext ==
    \/ \E k \in PairKeys : PairAdd(k)
    \/ \E k \in PairKeys : PairRemove(k)

SpecPair == PairInit /\ [][PairNext]_vars

(***************************************************************************)
(* Runs that add up to MaxScript distinct keys to an empty tree; tret.hist *)
(* keeps the keys in the order of the adds.                                *)
(***************************************************************************)
ScriptInit ==
    /\ ops \in {b6_avl_tree, b6_rb_tree}
    /\ tree = b6_tree_initialize(Keys)
    /\ tret = [op |-> "init", ref |-> NULL, ret |-> NULL, ok |-> TRUE,
               trail |-> <<>>, hist |-> <<>>]
    /\ PoolIdle
    /\ InitIdle
    /\ PairIdle
    /\ SplayIdle
    /\ VectorIdle
    /\ DequeIdle
    /\ ThreadedIdle

ScriptAdd(k) ==
    /\ Len(tret.hist) < MaxScript
    /\ k \notin linked(tree)
    /\ LET added(r) == /\ tree' = r.tree
                       /\ tret' = [op |-> "add", ref |-> k, ret |-> r.ret,
                                   ok |-> r.ok, trail |-> r.trail,
                                   hist |-> Append(tret.hist, k)]
       IN  added(b6_tree_add(ops, tree, tree_comp(tree), k))
    /\ UNCHANGED <<ops, poolVars, initVars, pairVars, splayVars, vectorVars, dequeVars, threadedVars>>

ScriptNext == \E k \in Keys : ScriptAdd(k)

SpecScript == ScriptInit /\ [][ScriptNext]_vars

(***************************************************************************)
(* The splay tree driven as tst/splay.c drives it, in any order: adds,     *)
(* searches by value, removals of the root and walks from end to end.      *)
(* sret.members keeps the nodes added and not handed back by a removal;    *)
(* sret.hist tells whether the calls so far were adds of new values        *)
(* ("adds") followed by pairs of a search that found its value             *)
(* ("searched") and a removal ("deleted"); sret.examined holds the         *)
(* sentinels the comparison callback was called with during the call.      *)
(***************************************************************************)
SplayKeys == 1 .. MaxSplayKeys

SplayNodes == SplayKeys \cup Twins

\* The sentinels among the references S.
sentinels_in(S) == S \cap {splay_head, splay_tail}

\* What a call meets where the code reads what was never written: cmp is
\* what splay->comp answers when handed a sentinel as an element, top is
\* the contents of an entry of the local top of b6_splay_walk that no
\* assignment reached.
Junk == [cmp : {-1, 0, 1}, top : {NULL, Wild}]

SplayInit ==
    /\ splay = b6_splay_initialize(SplayNodes)
    /\ sret = [op |-> "init", arg |-> NULL, ret |-> NULL, seq |-> <<>>,
               ok |-> TRUE, hist |-> "adds", members |-> {},
               examined |-> {}]
    /\ TreeIdle
    /\ PoolIdle
    /\ InitIdle
    /\ PairIdle
    /\ VectorIdle
    /\ DequeIdle
    /\ ThreadedIdle

SplayAdd(n) ==
    /\ sret.ok
    /\ LET added(r) ==
               /\ splay' = r.splay
               /\ sret' = [op |-> "add", arg |-> n, ret |-> r.ret,
                           seq |-> <<>>, ok |-> r.ok,
                           hist |-> IF sret.hist = "adds" /\ r.ret = n
                                       /\ n \notin sret.members
                                    THEN "adds" ELSE "other",
                           members |-> IF r.ret = n
                                       THEN sret.members \cup {n}
                                       ELSE sret.members,
                           examined |-> sentinels_in(r.examined)]
       IN  added(b6_splay_add(splay,
                              [m \in SplayNodes |-> node_cmp(m, n)], n))
    /\ UNCHANGED <<treeVars, poolVars, initVars, pairVars, vectorVars, dequeVars, threadedVars>>

SplaySearch(k) ==
    /\ sret.ok
    /\ LET found(r) ==
               /\ splay' = r.splay
               /\ sret' = [op |-> "search", arg |-> k, ret |-> r.ret,
                           seq |-> <<>>, ok |-> r.ok,
                           hist |-> IF sret.hist \in {"adds", "deleted"}
                                       /\ r.ret # NULL
                                    THEN "searched" ELSE "other",
                           members |-> sret.members,
                           examined |-> sentinels_in(r.examined)]
       IN  found(b6_splay_search(splay,
                     [m \in SplayNodes |-> b6_sign_of(val(m) - k)]))
    /\ UNCHANGED <<treeVars, poolVars, initVars, pairVars, vectorVars, dequeVars, threadedVars>>

SplayDel ==
    /\ sret.ok
    /\ sret.members # {}
    /\ LET removed(r) ==
               /\ splay' = r.splay
               /\ sret' = [op |-> "del", arg |-> NULL, ret |-> r.ret,
                           seq |-> <<>>, ok |-> r.ok,
                           hist |-> IF sret.hist = "searched"
                                    THEN "deleted" ELSE "other",
                           members |-> sret.members \ {r.ret},
                           examined |-> {}]
       IN  removed(b6_splay_del(splay))
    /\ UNCHANGED <<treeVars, poolVars, initVars, pairVars, vectorVars, dequeVars, threadedVars>>

\* The references visited by stepping with b6_splay_walk from ref until
\* stop, ok (FALSE when a step fails or the walk does not end) and the
\* references the steps called splay->comp with.
RECURSIVE splay_walk_all(_, _, _, _, _, _)
splay_walk_all(s, ref, dir, stop, junk, fuel) ==
    LET rest(w, r) == [seq |-> <<ref>> \o r.seq, ok |-> r.ok,
                       examined |-> w.examined \cup r.examined]
        step(w) == IF ~w.ok
                   THEN [seq |-> <<ref>>, ok |-> FALSE,
                         examined |-> w.examined]
                   ELSE rest(w, splay_walk_all(s, w.ret, dir, stop, junk,
                                               fuel - 1))
    IN  IF ref = stop THEN [seq |-> <<>>, ok |-> TRUE, examined |-> {}]
        ELSE IF fuel = 0 THEN [seq |-> <<>>, ok |-> FALSE, examined |-> {}]
        ELSE step(b6_splay_walk(s, ref, dir, junk))

\* The two loops of the test: from the head in direction NEXT until the
\* tail, or from the tail in direction PREV until the head.
SplayWalk(dir, junk) ==
    /\ sret.ok
    /\ LET from == IF dir = B6_NEXT THEN splay_head ELSE splay_tail
           stop == IF dir = B6_NEXT THEN splay_tail ELSE splay_head
           walked(w, r) ==
               sret' = [op |-> "walk", arg |-> dir, ret |-> NULL,
                        seq |-> r.seq, ok |-> w.ok /\ r.ok,
                        hist |-> sret.hist, members |-> sret.members,
                        examined |->
                            sentinels_in(w.examined \cup r.examined)]
           first(w) ==
               walked(w, IF w.ok
                         THEN splay_walk_all(splay, w.ret, dir, stop, junk,
                                             Cardinality(DOMAIN splay.ref))
                         ELSE [seq |-> <<>>, ok |-> FALSE,
                               examined |-> {}])
       IN  first(b6_splay_walk(splay, from, dir, junk))
    /\ UNCHANGED <<splay, treeVars, poolVars, initVars, pairVars, vectorVars, dequeVars, threadedVars>>

\* One call of b6_splay_walk from a sentinel or from an element of the
\* tree, in either direction.
SplayStep(ref, dir, junk) ==
    /\ sret.ok
    /\ ref \in sret.members \cup {splay_head, splay_tail}
    /\ LET stepped(w) ==
               sret' = [op |-> "step", arg |-> <<ref, dir>>, ret |-> w.ret,
                        seq |-> <<>>, ok |-> w.ok,
                        hist |-> sret.hist, members |-> sret.members,
                        examined |-> sentinels_in(w.examined)]
       IN  stepped(b6_splay_walk(splay, ref, dir, junk))
    /\ UNCHANGED <<splay, treeVars, poolVars, initVars, pairVars, vectorVars, dequeVars, threadedVars>>

SplayNext ==
    \/ \E n \in SplayNodes : SplayAdd(n)
    \/ \E k \in SplayKeys : SplaySearch(k)
    \/ SplayDel
    \/ \E dir \in {B6_NEXT, B6_PREV} : \E junk \in Junk :
           SplayWalk(dir, junk)

SpecSplay == SplayInit /\ [][SplayNext]_vars

\* The same with single calls of b6_splay_walk from any reference.
SplayStepNext ==
    \/ SplayNext
    \/ \E ref \in SplayNodes \cup {splay_head, splay_tail} :
           \E dir \in {B6_NEXT, B6_PREV} : \E junk \in Junk :
               SplayStep(ref, dir, junk)

SpecSplayStep == SplayInit /\ [][SplayStepNext]_vars

(***************************************************************************)
(* The vector under any sequence of adds and dels.  After an add the       *)
(* caller writes the n slots it was handed, with items that alternate      *)
(* between 1 and 2.  vret.ull is the modulus of unsigned long long in the  *)
(* build; vret.handed tells that the last call was an add that handed out  *)
(* slots, and vret.base is then the vector before that add (else the       *)
(* vector as it is).                                                       *)
(***************************************************************************)
ItemSizes == {1, 2}

\* The counts the calls are made with.
Counts == {0, 1, 2, 3, ULongMax}

VectorInit ==
    /\ \E itemsize \in ItemSizes : vector = b6_vector_initialize(itemsize)
    /\ \E ull \in ULLongMods :
           vret = [op |-> "init", index |-> 0, n |-> 0, ret |-> NULL,
                   ok |-> TRUE, hang |-> FALSE, moved |-> FALSE,
                   ull |-> ull, base |-> vector, handed |-> FALSE]
    /\ TreeIdle
    /\ PoolIdle
    /\ InitIdle
    /\ PairIdle
    /\ SplayIdle
    /\ DequeIdle
    /\ ThreadedIdle

\* What the caller's stores make of the vector v that add(index, n) left:
\* first is the length before the add.
written(v, index, n, first) ==
    [v EXCEPT !.items = [k \in 1 .. Len(v.items) |->
                            IF k - 1 >= index /\ k - 1 < index + n
                            THEN 1 + ((first + k) % 2)
                            ELSE v.items[k]]]

VectorAdd(index, n, grant) ==
    /\ vret.ok /\ ~vret.hang
    /\ LET at == IF index > vector.length THEN vector.length ELSE index
           handed(r) == r.ok /\ ~r.hang /\ r.ret # NULL /\ n # 0
           inside(r) == at + n <= vector_slots(r.self)
           added(r) ==
               /\ vector' = IF handed(r)
                            THEN written(r.self, at, n, vector.length)
                            ELSE r.self
               /\ vret' = [vret EXCEPT
                             !.op = "add", !.index = index, !.n = n,
                             !.ret = r.ret, !.hang = r.hang,
                             !.ok = r.ok /\ (handed(r) => inside(r)),
                             !.moved = r.moved,
                             !.base = vector, !.handed = handed(r)]
       IN  added(b6_vector_add(vector, index, n, vret.ull, grant))
    /\ UNCHANGED <<treeVars, poolVars, initVars, pairVars, splayVars,
                   dequeVars, threadedVars>>

VectorDel(index, n) ==
    /\ vret.ok /\ ~vret.hang
    /\ LET removed(r) ==
               /\ vector' = r.self
               /\ vret' = [vret EXCEPT
                             !.op = "del", !.index = index, !.n = n,
                             !.ret = r.ret, !.ok = r.ok,
                             !.moved = r.moved,
                             !.base = r.self, !.handed = FALSE]
       IN  removed(b6_vector_del(vector, index, n, vret.ull))
    /\ UNCHANGED <<treeVars, poolVars, initVars, pairVars, splayVars,
                   dequeVars, threadedVars>>

VectorNext ==
    \/ \E index \in 0 .. ULongMax : \E n \in Counts :
           \E grant \in BOOLEAN : VectorAdd(index, n, grant)
    \/ \E index \in 0 .. ULongMax : \E n \in Counts :
           VectorDel(index, n)

SpecVector == VectorInit /\ [][VectorNext]_vars

(***************************************************************************)
(* The deque under any sequence of the calls of deque.h, as tst/deque.c    *)
(* makes them, the calls that violate a precondition included (these end   *)
(* the run).  dret.members keeps the references added and not handed back  *)
(* by a removal; dret.hist is "appends" while every call so far was a      *)
(* b6_deque_add_last, "drains" when these were followed by removals of     *)
(* the first element only, and dret.order is then the order in which the   *)
(* references still stored were appended.                                  *)
(***************************************************************************)
Srefs == 1 .. MaxSrefs

DequeInit ==
    /\ deque = b6_deque_initialize(Srefs)
    /\ dret = [op |-> "init", arg |-> <<>>, ret |-> NULL, ok |-> TRUE,
               members |-> {}, hist |-> "appends", order |-> <<>>]
    /\ TreeIdle
    /\ PoolIdle
    /\ InitIdle
    /\ PairIdle
    /\ SplayIdle
    /\ VectorIdle
    /\ ThreadedIdle

\* The references a call may name as a position in the deque.
Positions == dret.members \cup {deque_head, deque_tail}

\* The effect of a call that adds sref.
DequeAdded(op, arg, sref, r) ==
    /\ deque' = r.deque
    /\ dret' = [op |-> op, arg |-> arg, ret |-> r.ret, ok |-> r.ok,
                members |-> IF r.ok THEN dret.members \cup {sref}
                            ELSE dret.members,
                hist |-> IF r.ok /\ op = "add_last" /\ dret.hist = "appends"
                         THEN "appends" ELSE "other",
                order |-> IF r.ok /\ op = "add_last"
                             /\ dret.hist = "appends"
                          THEN Append(dret.order, sref) ELSE <<>>]
    /\ UNCHANGED <<treeVars, poolVars, initVars, pairVars, splayVars,
                   vectorVars, threadedVars>>

\* The effect of a call that removes a reference; front tells that the
\* call removes the first one.
DequeRemoved(op, arg, front, r) ==
    /\ deque' = r.deque
    /\ dret' = [op |-> op, arg |-> arg, ret |-> r.ret, ok |-> r.ok,
                members |-> dret.members \ {r.ret},
                hist |-> IF r.ok /\ front
                            /\ dret.hist \in {"appends", "drains"}
                         THEN "drains" ELSE "other",
                order |-> IF r.ok /\ front
                             /\ dret.hist \in {"appends", "drains"}
                          THEN Tail(dret.order) ELSE <<>>]
    /\ UNCHANGED <<treeVars, poolVars, initVars, pairVars, splayVars,
                   vectorVars, threadedVars>>

DequeAddAfter(prev, sref) ==
    /\ dret.ok
    /\ prev \in Positions
    /\ sref \notin dret.members
    /\ DequeAdded("add_after", <<prev, sref>>, sref,
                  b6_deque_add_after(deque, prev, sref))

DequeAdd(next, sref) ==
    /\ dret.ok
    /\ next \in Positions
    /\ sref \notin dret.members
    /\ DequeAdded("add", <<next, sref>>, sref,
                  b6_deque_add(deque, next, sref))

DequeAddFirst(sref) ==
    /\ dret.ok
    /\ sref \notin dret.members
    /\ DequeAdded("add_first", <<sref>>, sref,
                  b6_deque_add_first(deque, sref))

DequeAddLast(sref) ==
    /\ dret.ok
    /\ sref \notin dret.members
    /\ DequeAdded("add_last", <<sref>>, sref,
                  b6_deque_add_last(deque, sref))

DequeDelAfter(prev) ==
    /\ dret.ok
    /\ prev \in Positions
    /\ DequeRemoved("del_after", <<prev>>, prev = deque_head,
                    b6_deque_del_after(deque, prev))

DequeDel(sref) ==
    /\ dret.ok
    /\ sref \in Positions
    /\ DequeRemoved("del", <<sref>>, FALSE, b6_deque_del(deque, sref))

DequeDelFirst ==
    /\ dret.ok
    /\ DequeRemoved("del_first", <<>>, TRUE, b6_deque_del_first(deque))

DequeDelLast ==
    /\ dret.ok
    /\ DequeRemoved("del_last", <<>>, FALSE, b6_deque_del_last(deque))

\* b6_deque_first and b6_deque_last, which change nothing.
DequeEnds(op) ==
    /\ dret.ok
    /\ dret' = [dret EXCEPT !.op = op, !.arg = <<>>,
                            !.ret = IF op = "first"
                                    THEN b6_deque_first(deque)
                                    ELSE b6_deque_last(deque)]
    /\ UNCHANGED <<deque, treeVars, poolVars, initVars, pairVars, splayVars,
                   vectorVars, threadedVars>>

DequeNext ==
    \/ \E prev \in Srefs \cup {deque_head, deque_tail} :
           \E sref \in Srefs : DequeAddAfter(prev, sref)
    \/ \E next \in Srefs \cup {deque_head, deque_tail} :
           \E sref \in Srefs : DequeAdd(next, sref)
    \/ \E sref \in Srefs : DequeAddFirst(sref)
    \/ \E sref \in Srefs : DequeAddLast(sref)
    \/ \E prev \in Srefs \cup {deque_head, deque_tail} : DequeDelAfter(prev)
    \/ \E sref \in Srefs \cup {deque_head, deque_tail} : DequeDel(sref)
    \/ DequeDelFirst
    \/ DequeDelLast
    \/ \E op \in {"first", "last"} : DequeEnds(op)

SpecDeque == DequeInit /\ [][DequeNext]_vars

(***************************************************************************)
(* b6_pool_initialize over its arguments.                                  *)
(***************************************************************************)
SizeArgs == 0 .. (UnsignedMod - 1)

ChunkSizeArgs == {0, PtrSize, PtrSize + HeaderSize, 2 * HeaderSize,
                  MinChunkSize, UnsignedMod - 1}

InitInit ==
    /\ args \in [size : SizeArgs, chunk_size : ChunkSizeArgs]
    /\ init = [called |-> FALSE, ret |-> 0, size |-> 0, chunk_size |-> 0]
    /\ TreeIdle
    /\ PoolIdle
    /\ PairIdle
    /\ SplayIdle
    /\ VectorIdle
    /\ DequeIdle
    /\ ThreadedIdle

Initialize ==
    /\ ~init.called
    /\ LET r == b6_pool_initialize(args.size, args.chunk_size)
       IN  init' = [called |-> TRUE, ret |-> r.ret, size |-> r.size,
                    chunk_size |-> r.chunk_size]
    /\ UNCHANGED <<args, treeVars, poolVars, pairVars, splayVars, vectorVars, dequeVars, threadedVars>>

InitNext == Initialize

SpecInit == InitInit /\ [][InitNext]_vars

(***************************************************************************)
(* The pool: b6_pool_initialize, then any sequence of calls until the      *)
(* process dies or the pool is finalized.                                  *)
(***************************************************************************)
\* The arguments <<size, chunk_size>> the pool is initialized with.
PoolArgs == {<<5, 152>>, <<16, 176>>, <<16, 152>>}

\* The blocks the underlying allocator can hand out for chunks of cs bytes.
BlockAddrs(cs) ==
    {BlockBase + k * (cs + HeaderSize) : k \in 0 .. (MaxBlocks - 1)}

\* Every address b6_pool_get can compute from those blocks for objects of
\* size bytes: past the header, aligned like a slot, up to one object past
\* the end of the block.
SlotAddrs(cs, size) ==
    {b + o : b \in BlockAddrs(cs),
             o \in {x \in HeaderSize .. (cs + HeaderSize + size) :
                        x % PtrSize = 0}}

\* The fields b6_pool_initialize leaves as it found them.
Indeterminate == {NULL, Wild}

M == [pool |-> pool, chunk |-> chunks, blocks |-> blocks, crashed |-> crashed]

\* The pool after b6_pool_initialize succeeded with arguments from Args.
PoolInit(Args) ==
    /\ \E a \in Args : \E c \in Indeterminate : \E f \in Indeterminate :
           LET r == b6_pool_initialize(a[1], a[2])
           IN  /\ r.ret = 0
               /\ pool = [chunk_size |-> r.chunk_size,
                          size       |-> r.size,
                          curr       |-> c,
                          free       |-> f,
                          queue      |-> b6_deque_initialize(
                                             SlotAddrs(r.chunk_size,
                                                       r.size)),
                          list       |-> b6_list_initialize,
                          tree       |-> b6_tree_initialize(
                                             BlockAddrs(r.chunk_size))]
               /\ chunks = [b \in BlockAddrs(r.chunk_size) |-> NoChunk]
    /\ blocks = {}
    /\ crashed = FALSE
    /\ live = {}
    /\ pret = [op |-> "init", arg |-> NULL, n |-> 0, a |-> NULL,
               ret |-> NULL, seq |-> 0]
    /\ TreeIdle
    /\ InitIdle
    /\ PairIdle
    /\ SplayIdle
    /\ VectorIdle
    /\ DequeIdle
    /\ ThreadedIdle

Init == PoolInit(PoolArgs)

Running == ~crashed /\ pret.op # "finalize"

\* The machine after a call, and the record of the call.
Returned(m, call) ==
    /\ pool' = m.pool
    /\ chunks' = m.chunk
    /\ blocks' = m.blocks
    /\ crashed' = m.crashed
    /\ pret' = [call EXCEPT !.seq = 1 - pret.seq]
    /\ UNCHANGED <<treeVars, initVars, pairVars, splayVars, vectorVars, dequeVars, threadedVars>>

\* What the underlying allocator may answer to a request for a block.
Answers == {NULL} \cup (DOMAIN chunks \ blocks)

PoolGet ==
    /\ Running
    /\ \E a \in Answers :
           LET got(r) ==
                   /\ Returned(r.m, [op |-> "get", arg |-> NULL, n |-> 0,
                                     a |-> a, ret |-> r.ret, seq |-> 0])
                   /\ live' = IF r.ret # NULL /\ ~r.m.crashed
                              THEN live \cup {r.ret} ELSE live
           IN  got(b6_pool_get(M, a))

PoolPut(ptr) ==
    /\ Running
    /\ ptr \in live
    /\ Returned(b6_pool_put(M, ptr),
                [op |-> "put", arg |-> ptr, n |-> 0, a |-> NULL,
                 ret |-> NULL, seq |-> 0])
    /\ live' = live \ {ptr}

PoolFinalize ==
    /\ Running
    /\ Returned(b6_pool_finalize(M),
                [op |-> "finalize", arg |-> NULL, n |-> 0, a |-> NULL,
                 ret |-> NULL, seq |-> 0])
    /\ UNCHANGED live

\* The request sizes tried through the allocator interface.
Requests == {0, pool.size, pool.size + 1}

\* The values that may be read where the displaced pool has its size.
ForeignSizes == {0, UnsignedMod - 1}

PoolAllocate(n) ==
    /\ Running
    /\ \E intact \in BOOLEAN : \E g \in ForeignSizes :
           LET done(r) ==
                   Returned(r.m, [op |-> "allocate", arg |-> NULL, n |-> n,
                                  a |-> NULL, ret |-> r.ret, seq |-> 0])
           IN  done(b6_allocate(M, intact, g, n))
    /\ UNCHANGED live

PoolReallocate(ptr, n) ==
    /\ Running
    /\ \E intact \in BOOLEAN : \E g \in ForeignSizes :
           LET done(r) ==
                   Returned(r.m, [op |-> "reallocate", arg |-> ptr, n |-> n,
                                  a |-> NULL, ret |-> r.ret, seq |-> 0])
           IN  done(b6_reallocate(M, intact, g, ptr, n))
    /\ UNCHANGED live

PoolDeallocate(ptr) ==
    /\ Running
    /\ \E intact \in BOOLEAN :
           Returned(b6_deallocate(M, intact, ptr),
                    [op |-> "deallocate", arg |-> ptr, n |-> 0, a |-> NULL,
                     ret |-> NULL, seq |-> 0])
    /\ UNCHANGED live

Next ==
    \/ PoolGet
    \/ \E ptr \in live : PoolPut(ptr)
    \/ PoolFinalize

Spec == Init /\ [][Next]_vars

\* The same pool, also called through its struct b6_allocator.
AllocatorNext ==
    \/ PoolGet
    \/ \E ptr \in live : PoolPut(ptr)
    \/ PoolFinalize
    \/ \E n \in Requests : PoolAllocate(n)
    \/ \E ptr \in live \cup {NULL} : \E n \in Requests : PoolReallocate(ptr, n)
    \/ \E ptr \in live \cup {NULL} : PoolDeallocate(ptr)

SpecAllocator == Init /\ [][AllocatorNext]_vars

\* Arguments b6_pool_initialize accepts that leave chunk_size smaller than
\* two objects: <size, chunk_size> as passed.
TightArgs == {<<16, 88>>, <<24, 104>>, <<72, 208>>}

TightInit == PoolInit(TightArgs)

SpecTight == TightInit /\ [][Next]_vars

(***************************************************************************)
(* The threaded splay tree searched and walked from every well-formed      *)
(* tree over the nodes offered: Init draws the tree, the actions apply     *)
(* b6_splay_search and the walks of splay.h to it.                         *)
(***************************************************************************)
\* The binary search trees over the set S of addresses: [root, child].
RECURSIVE shapes(_)
shapes(S) ==
    IF S = {} THEN {[root |-> NULL, child |-> <<>>]}
    ELSE UNION {
        {[root  |-> r,
          child |-> (r :> (B6_PREV :> L.root @@ B6_NEXT :> R.root))
                        @@ L.child @@ R.child] :
            L \in shapes({x \in S : x < r}),
            R \in shapes({x \in S : x > r})} : r \in S}

\* The in-order neighbour of n among S in direction dir, the sentinel at
\* the extremes.
neighbour(S, n, dir) ==
    LET side == IF dir = B6_NEXT THEN {x \in S : x > n}
                ELSE {x \in S : x < n}
    IN  IF side = {} THEN splay_dref
        ELSE IF dir = B6_NEXT THEN CHOOSE x \in side : \A y \in side : x <= y
        ELSE CHOOSE x \in side : \A y \in side : x >= y

\* The threaded tree of shape sh over S: every absent child is a thread to
\* the in-order neighbour; the nodes left out are detached.
threaded_of(S, sh) ==
    [root |-> IF sh.root = NULL THEN b6_splay_to_thread(splay_dref)
              ELSE sh.root,
     mem  |-> [n \in ThreadNodes |->
                  [ref |-> [d \in 0 .. 1 |->
                      IF n \notin S THEN NULL
                      ELSE IF sh.child[n][d] # NULL THEN sh.child[n][d]
                      ELSE b6_splay_to_thread(neighbour(S, n, d))]]]]

\* The nodes in order as the child links give them; NULL marks a link that
\* is neither a thread nor a node, or a descent longer than the tree.
RECURSIVE threaded_inorder(_, _, _)
threaded_inorder(t, link, fuel) ==
    IF b6_splay_is_thread(link) THEN <<>>
    ELSE IF link \notin ThreadNodes \/ fuel = 0 THEN <<NULL>>
    ELSE threaded_inorder(t, t.mem[link].ref[B6_PREV], fuel - 1)
         \o <<link>>
         \o threaded_inorder(t, t.mem[link].ref[B6_NEXT], fuel - 1)

\* Every absent child is a thread to the in-order neighbour, or to the
\* sentinel at the extremes, and the nodes are in ascending order.
well_formed(t) ==
    LET seq == threaded_inorder(t, t.root, MaxThreadKeys)
        at(i) == IF i = 0 \/ i = Len(seq) + 1 THEN splay_dref ELSE seq[i]
    IN  /\ \A i \in DOMAIN seq : seq[i] # NULL
        /\ \A i \in DOMAIN seq : i > 1 => seq[i - 1] < seq[i]
        /\ b6_splay_is_thread(t.root) =>
               t.root = b6_splay_to_thread(splay_dref)
        /\ \A i \in DOMAIN seq :
               /\ b6_splay_is_thread(t.mem[seq[i]].ref[B6_PREV]) =>
                      t.mem[seq[i]].ref[B6_PREV] =
                          b6_splay_to_thread(at(i - 1))
               /\ b6_splay_is_thread(t.mem[seq[i]].ref[B6_NEXT]) =>
                      t.mem[seq[i]].ref[B6_NEXT] =
                          b6_splay_to_thread(at(i + 1))

\* The references b6_splay_walk yields from ref on in direction dir, until
\* it yields the sentinel; NULL marks a walk that leaves the nodes or does
\* not end within fuel steps.
RECURSIVE threaded_walk_all(_, _, _, _)
threaded_walk_all(t, ref, dir, fuel) ==
    IF ref = splay_dref THEN <<>>
    ELSE IF ref \notin ThreadNodes \/ fuel = 0 THEN <<NULL>>
    ELSE <<ref>> \o threaded_walk_all(t, threaded_walk(t, ref, dir), dir,
                                      fuel - 1)

ThreadedInit ==
    /\ \E S \in SUBSET ThreadNodes : \E sh \in shapes(S) :
           threaded = threaded_of(S, sh)
    /\ thret = [op |-> "init", arg |-> 0, res |-> 0, visited |-> <<>>]
    /\ TreeIdle
    /\ PoolIdle
    /\ InitIdle
    /\ PairIdle
    /\ SplayIdle
    /\ VectorIdle
    /\ DequeIdle

ThreadedSearch(k) ==
    /\ well_formed(threaded)
    /\ \E junk \in Indeterminate :
           LET searched(r) ==
                   /\ threaded' = r.tree
                   /\ thret' = [op |-> "search", arg |-> k, res |-> r.res,
                                visited |-> <<>>]
           IN  searched(threaded_search(threaded, k, junk))
    /\ UNCHANGED <<treeVars, poolVars, initVars, pairVars, splayVars,
                   vectorVars, dequeVars>>

ThreadedWalk(dir) ==
    /\ thret' = [op |-> "walk", arg |-> dir, res |-> 0,
                 visited |-> threaded_walk_all(
                                 threaded,
                                 threaded_walk(threaded, splay_dref, dir),
                                 dir, MaxThreadKeys + 1)]
    /\ UNCHANGED <<threaded, treeVars, poolVars, initVars, pairVars,
                   splayVars, vectorVars, dequeVars>>

ThreadedNext ==
    \/ \E k \in 1 .. MaxThreadKeys : ThreadedSearch(k)
    \/ \E dir \in {B6_NEXT, B6_PREV} : ThreadedWalk(dir)

SpecThreaded == ThreadedInit /\ [][ThreadedNext]_vars

(***************************************************************************)
(* Properties of the balanced tree.                                        *)
(***************************************************************************)
balance_of(t, n) ==
    height(t, t[n].ref[B6_NEXT]) - height(t, t[n].ref[B6_PREV])

\* C9: with the AVL discipline, after every add and del, every node of the
\* physical tree under root.ref[PREV], head and tail included, has subtree
\* heights differing by at most 1 and a stored balance equal to
\* height(NEXT subtree) - height(PREV subtree).
C9_AvlBalanced ==
    ops = b6_avl_tree =>
        \A n \in linked(tree) :
            /\ balance_of(tree, n) \in {-1, 0, 1}
            /\ tree[n].balance = balance_of(tree, n)

\* A deletion that left an AVL tree of height 3 with a NEXT-heavy top node.
C9_Witness ==
    /\ ops = b6_avl_tree
    /\ tret.op = "del"
    /\ height(tree, tree_top(tree)) = 3
    /\ tree[tree_top(tree)].balance = 1

\* The numbers of BLACK nodes on the paths from ref down to an absent child.
RECURSIVE black_counts(_, _)
black_counts(t, ref) ==
    IF ref = NULL THEN {0}
    ELSE LET own == IF t[ref].balance = BLACK THEN 1 ELSE 0
         IN  {c + own : c \in black_counts(t, t[ref].ref[B6_PREV])
                            \cup black_counts(t, t[ref].ref[B6_NEXT])}

\* C10: with the red-black discipline, after every add and del, the node
\* under root.ref[PREV] is BLACK, no RED node has a RED child, and every path
\* from that node down to an absent child crosses the same number of BLACK
\* nodes, head and tail counted as ordinary nodes.
C10_RedBlack ==
    ops = b6_rb_tree =>
        /\ tree[tree_top(tree)].balance = BLACK
        /\ \A n \in linked(tree) : \A d \in {B6_PREV, B6_NEXT} :
               (tree[n].balance = RED /\ has_child(tree, n, d))
                   => tree[tree[n].ref[d]].balance # RED
        /\ Cardinality(black_counts(tree, tree_top(tree))) = 1

\* A deletion that left a red-black tree holding a RED node with two
\* BLACK children.
C10_Witness ==
    /\ ops = b6_rb_tree
    /\ tret.op = "del"
    /\ \E n \in linked(tree) :
           /\ tree[n].balance = RED
           /\ has_child(tree, n, B6_PREV)
           /\ has_child(tree, n, B6_NEXT)

(***************************************************************************)
(* Properties of the pool.                                                 *)
(***************************************************************************)
\* The chunks linked in the tree of the pool.
tree_chunks == linked(pool.tree) \ Sentinels

\* A step that is a call of op.
Called(op) == pret'.op = op /\ pret'.seq # pret.seq

\* curr cannot serve another object.
exhausted(chunk) ==
    chunks[chunk].index + pool.size > pool.chunk_size

\* C1: after any sequence of get and put, every live pointer lies in
\* [start, start + chunk_size) of exactly one chunk held in the tree, and the
\* range lookup maps it to that chunk.
C1_LiveInOneChunk ==
    ~crashed =>
        \A ptr \in live :
            /\ Cardinality({c \in tree_chunks :
                               c <= ptr /\ ptr < c + pool.chunk_size}) = 1
            /\ find_chunk(M, ptr) \in
                   {c \in tree_chunks : c <= ptr /\ ptr < c + pool.chunk_size}

\* The recycled slots, most recently put first, whose chunk is still live.
recycled_live ==
    SelectSeq(deque_seq(pool.queue),
              LAMBDA sref : /\ find_chunk(M, sref) # NULL
                            /\ chunks[find_chunk(M, sref)].flag = 0)

\* C2: a get made while some recycled slot belongs to a live chunk returns
\* the most recently put of those slots.
C2_MostRecentFirst ==
    [][(Called("get") /\ recycled_live # <<>>)
          => (~crashed' /\ pret'.ret = Head(recycled_live))]_vars

C4_FinalizeReleasesAll ==
    [][(Called("finalize") /\ pool.curr # Wild /\ pool.free # Wild)
          => /\ ~crashed'
             /\ blocks' = {}
             /\ pool'.list = b6_list_initialize
             /\ linked(pool'.tree) \ Sentinels = {}]_vars

\* C5: when a get finds the queue empty, curr absent or exhausted and no
\* cached chunk, and the underlying allocator answers absent, the get returns
\* absent and leaves curr, the list and the tree as they were.
C5_AllocationFailure ==
    [][(/\ Called("get")
        /\ pret'.a = NULL
        /\ b6_deque_empty(pool.queue)
        /\ pool.free = NULL
        /\ pool.curr # Wild
        /\ (pool.curr = NULL \/ exhausted(pool.curr)))
          => /\ pret'.ret = NULL
             /\ ~crashed'
             /\ pool'.curr = pool.curr
             /\ pool'.list = pool.list
             /\ pool'.tree = pool.tree]_vars

\* A get has just failed on an exhausted curr.
C5_Witness ==
    /\ pret.op = "get"
    /\ pret.a = NULL
    /\ pret.ret = NULL
    /\ ~crashed
    /\ pool.curr \in blocks
    /\ exhausted(pool.curr)
    /\ b6_deque_empty(pool.queue)
    /\ pool.free = NULL

\* C6: through the allocator interface, allocate(n) returns a slot iff
\* n <= size, and reallocate(p, n) returns p iff n <= size and absent
\* otherwise; a refused request leaves the pool unchanged.
C6_AllocatorInterface ==
    [][/\ Called("allocate") =>
              /\ ~crashed'
              /\ (pret'.ret # NULL) <=> (pret'.n <= pool.size)
              /\ pret'.n > pool.size =>
                     UNCHANGED <<pool, chunks, blocks, live>>
       /\ (Called("reallocate") /\ pret'.arg # NULL) =>
              /\ ~crashed'
              /\ pret'.ret = IF pret'.n <= pool.size THEN pret'.arg ELSE NULL
              /\ pret'.n > pool.size =>
                     UNCHANGED <<pool, chunks, blocks, live>>]_vars

\* C7: b6_deallocate(self, absent) on a pool changes no state and raises no
\* error.
C7_DeallocateAbsent ==
    [][(Called("deallocate") /\ pret'.arg = NULL)
          => (~crashed' /\ UNCHANGED <<pool, chunks, blocks, live>>)]_vars

(***************************************************************************)
(* Properties of b6_pool_initialize.                                       *)
(***************************************************************************)
\* n rounded up to a multiple of the pointer size.
rounded_up(n) == ((n + PtrSize - 1) \div PtrSize) * PtrSize

\* The smallest of p, 2p, 4p, ... that is at least need.
RECURSIVE smallest_double(_, _)
smallest_double(p, need) ==
    IF p >= need THEN p ELSE smallest_double(2 * p, need)

\* C8: b6_pool_initialize stores size rounded up to a multiple of the pointer
\* size; with chunk_size 0 it succeeds with the smallest power of two >= 4096
\* that holds one object, the header and one pointer; with another chunk_size
\* it fails iff chunk_size is smaller than object plus header plus pointer.
C8_Initialize ==
    init.called =>
        /\ init.ret = 0 => init.size = rounded_up(args.size)
        /\ args.chunk_size = 0 =>
               /\ init.ret = 0
               /\ init.chunk_size + HeaderSize + PtrSize =
                      smallest_double(MinChunkSize, rounded_up(args.size)
                                                    + HeaderSize + PtrSize)
        /\ args.chunk_size # 0 =>
               ((init.ret = -1) <=>
                    (args.chunk_size <
                         rounded_up(args.size) + HeaderSize + PtrSize))

(***************************************************************************)
(* Properties of walks and searches in the balanced tree.                  *)
(***************************************************************************)
\* The user nodes linked in the tree.
present(t) == linked(t) \ Sentinels

\* The references visited by stepping with b6_tree_walk from ref until
\* stop; a walk that leaves the tree or does not end yields a NULL entry.
RECURSIVE walk_all(_, _, _, _, _)
walk_all(t, ref, dir, stop, fuel) ==
    IF ref = stop THEN <<>>
    ELSE IF ref = NULL \/ fuel = 0 THEN <<NULL>>
    ELSE <<ref>> \o walk_all(t, b6_tree_walk(t, ref, dir), dir, stop,
                             fuel - 1)

walk_next(t) ==
    walk_all(t, b6_tree_first(t), B6_NEXT, tree_tail, Cardinality(DOMAIN t))

walk_prev(t) ==
    walk_all(t, b6_tree_last(t), B6_PREV, tree_head, Cardinality(DOMAIN t))

\* The members of a set of integers in ascending and in descending order.
RECURSIVE ascending(_)
ascending(S) ==
    IF S = {} THEN <<>>
    ELSE LET m == CHOOSE x \in S : \A y \in S : x <= y
         IN  <<m>> \o ascending(S \ {m})

RECURSIVE descending(_)
descending(S) ==
    IF S = {} THEN <<>>
    ELSE LET m == CHOOSE x \in S : \A y \in S : x >= y
         IN  <<m>> \o descending(S \ {m})

\* C11: after every b6_tree_add and b6_tree_del (AVL or RB), stepping NEXT
\* from b6_tree_first until the tail visits exactly the keys added and not
\* since deleted, each once, in strictly ascending order, and stepping PREV
\* from b6_tree_last until the head visits them in strictly descending
\* order; an add brings in its reference only and a del takes out its
\* reference only.
C11_WalkInOrder ==
    [][/\ (tree' # tree /\ tret'.op = "add")
            => present(tree') = present(tree) \cup {tret'.ref}
       /\ (tree' # tree /\ tret'.op = "del")
            => /\ present(tree') = present(tree) \ {tret'.ref}
               /\ tret'.ref \in present(tree)
       /\ walk_next(tree') = ascending(present(tree'))
       /\ walk_prev(tree') = descending(present(tree'))]_vars

\* A deletion left at least three keys under a user node at the top, with
\* both walks in order.
C11_Witness ==
    /\ tret.op = "del"
    /\ Cardinality(present(tree)) >= 3
    /\ tree_top(tree) \notin Sentinels
    /\ walk_next(tree) = ascending(present(tree))
    /\ walk_prev(tree) = descending(present(tree))

\* C13: in every reachable tree shape, b6_tree_search calls the examine
\* function with user nodes only, never with the head or the tail; where
\* the descent reaches the head it goes on in direction NEXT and where it
\* reaches the tail it goes on in direction PREV.
C13_SentinelsNotExamined ==
    \A i \in DOMAIN tret.trail :
        /\ tret.trail[i].examined <=> tret.trail[i].ref \in Keys
        /\ tret.trail[i].ref = tree_head => tret.trail[i].dir = B6_NEXT
        /\ tret.trail[i].ref = tree_tail => tret.trail[i].dir = B6_PREV

\* A search that met a sentinel moved below the top of the tree by
\* rotations and went on under it: the tail on the way to a large key, or
\* the head on the way to a small one.
C13_Witness ==
    /\ tret.op = "search"
    /\ tree_top(tree) \notin Sentinels
    /\ \E j \in DOMAIN tret.trail :
           /\ j > 1 /\ j < Len(tret.trail)
           /\ tret.trail[j].ref = IF tret.ref > 1 THEN tree_tail
                                  ELSE tree_head

\* C14 as stated: a search ends without a precondition violation whatever
\* the examine function returns, and finds the key exactly when it is in
\* the tree.
C14_AnySignAccepted ==
    tret.op = "search" =>
        /\ tret.ok
        /\ tret.ret = IF tret.ref \in present(tree) THEN tret.ref ELSE NULL

\* C14, amended: b6_tree_search accepts the examine results -1, 0 and +1
\* only.  -1 sends the descent NEXT and +1 sends it PREV; the first other
\* result violates the precondition of to_direction and ends the search
\* there; a search that met results in {-1, 0, +1} only finds the key
\* exactly when it is in the tree.
C14_UnitResultsOnly ==
    tret.op = "search" =>
        /\ tret.ok <=> \A i \in DOMAIN tret.trail :
                           tret.trail[i].result \in {-1, 0, 1}
        /\ \A i \in DOMAIN tret.trail :
               /\ tret.trail[i].result = -1 => tret.trail[i].dir = B6_NEXT
               /\ tret.trail[i].result = 1 => tret.trail[i].dir = B6_PREV
               /\ tret.trail[i].result \notin {-1, 0, 1}
                      => i = Len(tret.trail)
        /\ tret.ok => tret.ret = IF tret.ref \in present(tree)
                                 THEN tret.ref ELSE NULL
        /\ ~tret.ok => tret.ret = NULL

\* A search stopped by an examine result of magnitude two or more after a
\* result of magnitude one.
C14_Witness ==
    /\ tret.op = "search"
    /\ ~tret.ok
    /\ \E i \in DOMAIN tret.trail : tret.trail[i].result \in {-1, 1}


\* The values of the nodes a walk visited.
vals(seq) == [i \in DOMAIN seq |-> val(seq[i])]

strictly_ascending(seq) ==
    \A i \in 1 .. (Len(seq) - 1) : seq[i] < seq[i + 1]

\* The user node of the tree whose value equals that of n, or NULL.
equal_in(t, n) ==
    IF \E m \in present(t) : val(m) = val(n)
    THEN CHOOSE m \in present(t) : val(m) = val(n)
    ELSE NULL

\* C12: b6_tree_add of a reference whose key compares equal to a node
\* already in the tree returns that node and leaves every field of every
\* node unchanged; otherwise it links the reference, and it alone, and
\* returns it; the in-order walk never holds two equal keys.
C12_AddDuplicate ==
    [][tret'.op = "add" =>
        /\ equal_in(tree, tret'.ref) # NULL
             => (tret'.ret = equal_in(tree, tret'.ref) /\ tree' = tree)
        /\ equal_in(tree, tret'.ref) = NULL
             => /\ tret'.ret = tret'.ref
                /\ present(tree') = present(tree) \cup {tret'.ref}
        /\ strictly_ascending(vals(walk_next(tree')))
        /\ Len(walk_next(tree')) = Cardinality(present(tree'))]_vars

\* An add that returned another node than the one offered, out of a tree
\* of at least three nodes.
C12_Witness ==
    /\ tret.op = "add"
    /\ tret.ret # tret.ref
    /\ tret.ret \in present(tree)
    /\ tret.ref \notin present(tree)
    /\ Cardinality(present(tree)) >= 3


\* C15: given the same adds and removals on the same keys, an AVL tree
\* and a red-black tree return the same references (the inserted node, the
\* node already there, the removed node or NULL) and show the same walk in
\* both directions after every call.
C15_Interchangeable ==
    /\ pair.avl_ret = pair.rb_ret
    /\ walk_next(pair.avl) = walk_next(pair.rb)
    /\ walk_prev(pair.avl) = walk_prev(pair.rb)
    /\ walk_next(pair.avl) = ascending(present(pair.avl))

\* A removal that found its node left the two trees with at least four
\* nodes in different shapes.
C15_Witness ==
    /\ pair.op = "remove"
    /\ pair.avl_ret = pair.ref
    /\ Cardinality(present(pair.avl)) >= 4
    /\ tree_top(pair.avl) # tree_top(pair.rb)


\* Three keys were added to an empty AVL tree in ascending order (the keys
\* 10, 20, 30 of the scenario, up to their spacing).
ascending_triple ==
    /\ ops = b6_avl_tree
    /\ Len(tret.hist) = 3
    /\ tret.hist[1] < tret.hist[2]
    /\ tret.hist[2] < tret.hist[3]

\* C16 as stated: after adding 10, 20, 30 in that order to an empty AVL
\* tree, 20 is the node under root.ref[PREV] and 10 and 30 are its two
\* children; the in-order walk yields 10, 20, 30.
C16_MiddleKeyOnTop ==
    ascending_triple =>
        /\ tree_top(tree) = tret.hist[2]
        /\ tree[tret.hist[2]].ref[B6_PREV] = tret.hist[1]
        /\ tree[tret.hist[2]].ref[B6_NEXT] = tret.hist[3]
        /\ walk_next(tree) = tret.hist

\* C16, amended: after adding 10, 20, 30 in that order to an empty AVL
\* tree, the node under root.ref[PREV] is 10, with the head as its PREV
\* child and 30 as its NEXT child, and 30 has 20 as its PREV child and the
\* tail as its NEXT child: the head and the tail are nodes of the balanced
\* tree, and the rotation triggered by 30 is the double rotation at the
\* tail.  The walk yields 10, 20, 30 in direction NEXT and 30, 20, 10 in
\* direction PREV, and every stored balance is the difference of heights.
C16_FirstKeyOnTop ==
    ascending_triple =>
        /\ tree_top(tree) = tret.hist[1]
        /\ tree[tret.hist[1]].ref[B6_PREV] = tree_head
        /\ tree[tret.hist[1]].ref[B6_NEXT] = tret.hist[3]
        /\ tree[tret.hist[3]].ref[B6_PREV] = tret.hist[2]
        /\ tree[tret.hist[3]].ref[B6_NEXT] = tree_tail
        /\ \A n \in {tree_head, tree_tail, tret.hist[2]} :
               ~has_child(tree, n, B6_PREV) /\ ~has_child(tree, n, B6_NEXT)
        /\ walk_next(tree) = tret.hist
        /\ walk_prev(tree) = <<tret.hist[3], tret.hist[2], tret.hist[1]>>
        /\ \A n \in linked(tree) : tree[n].balance = balance_of(tree, n)

\* The third add of an ascending run has returned its node.
C16_Witness ==
    /\ ascending_triple
    /\ tret.op = "add"
    /\ tret.ret = tret.hist[3]


(***************************************************************************)
(* Properties of the splay tree.                                           *)
(***************************************************************************)
\* The nodes of the splay tree in order, sentinels included, read from the
\* child links under ref; fuel bounds the depth.
RECURSIVE splay_inorder(_, _, _)
splay_inorder(s, ref, fuel) ==
    IF ref = NULL \/ fuel = 0 THEN <<>>
    ELSE splay_inorder(s, s.ref[ref][B6_PREV], fuel - 1)
         \o <<ref>>
         \o splay_inorder(s, s.ref[ref][B6_NEXT], fuel - 1)

inorder(s) == splay_inorder(s, s.root, Cardinality(DOMAIN s.ref))

\* The nodes linked in the splay tree, sentinels included.
splay_linked(s) == {inorder(s)[i] : i \in DOMAIN inorder(s)}

\* The members of a set of nodes in ascending and descending order of
\* their values.
RECURSIVE by_val(_)
by_val(S) ==
    IF S = {} THEN <<>>
    ELSE LET m == CHOOSE x \in S : \A y \in S : val(x) <= val(y)
         IN  <<m>> \o by_val(S \ {m})

RECURSIVE by_val_down(_)
by_val_down(S) ==
    IF S = {} THEN <<>>
    ELSE LET m == CHOOSE x \in S : \A y \in S : val(x) >= val(y)
         IN  <<m>> \o by_val_down(S \ {m})

\* The member whose value is v, or NULL.
member_of(S, v) ==
    IF \E m \in S : val(m) = v THEN CHOOSE m \in S : val(m) = v ELSE NULL

\* C17: after adds of distinct keys followed by any number of pairs of a
\* successful b6_splay_search and a b6_splay_del, walking NEXT with
\* b6_splay_walk from the head until the tail visits exactly the remaining
\* elements, once each, in ascending order, and walking PREV from the tail
\* until the head visits them in descending order.
C17_SplayWalkInOrder ==
    (sret.op = "walk" /\ sret.hist \in {"adds", "deleted"}) =>
        /\ sret.ok
        /\ sret.seq = IF sret.arg = B6_NEXT THEN by_val(sret.members)
                      ELSE by_val_down(sret.members)

\* C18: b6_splay_search returns the element equal to the key, which is
\* the root when the call returns, or NULL when no element equals the key;
\* either way the nodes of the tree and their order are unchanged.
C18_SearchSplaysToRoot ==
    [][sret'.op = "search" =>
        /\ sret'.ok
        /\ sret'.ret = member_of(sret.members, sret'.arg)
        /\ sret'.ret # NULL => splay'.root = sret'.ret
        /\ inorder(splay') = inorder(splay)]_vars

\* A search found its key among three elements and left it at the root.
C18_Witness ==
    /\ sret.op = "search"
    /\ sret.ret # NULL
    /\ splay.root = sret.ret
    /\ Cardinality(sret.members) >= 3
    /\ {splay_head, splay_tail} \subseteq splay_linked(splay)

\* C19: b6_splay_add of a reference whose key equals an element of the
\* tree links nothing and returns that element, which is the root, not the
\* reference passed in; with a new key it links the reference, returns it
\* and leaves it at the root.
C19_SplayAddDuplicate ==
    [][sret'.op = "add" =>
        /\ sret'.ok
        /\ member_of(sret.members, val(sret'.arg)) # NULL
             => /\ sret'.ret = member_of(sret.members, val(sret'.arg))
                /\ splay'.root = sret'.ret
                /\ inorder(splay') = inorder(splay)
                /\ sret'.arg \notin sret.members => sret'.ret # sret'.arg
        /\ member_of(sret.members, val(sret'.arg)) = NULL
             => /\ sret'.ret = sret'.arg
                /\ splay'.root = sret'.arg
                /\ splay_linked(splay') =
                       splay_linked(splay) \cup {sret'.arg}]_vars

\* An add returned the element of equal value instead of the node passed.
C19_Witness ==
    /\ sret.op = "add"
    /\ sret.ret # sret.arg
    /\ sret.ret \in sret.members
    /\ splay.root = sret.ret
    /\ Cardinality(sret.members) >= 2

\* C20: b6_splay_del, called on a tree that holds at least one element
\* after any adds, searches and dels, returns the node at the root, which
\* is an element, and takes out that node only: the head, the tail and
\* every other element stay in the tree.
C20_DelRemovesRootElement ==
    [][sret'.op = "del" =>
        /\ sret'.ok
        /\ sret'.ret = splay.root
        /\ sret'.ret \in sret.members
        /\ splay_linked(splay') = splay_linked(splay) \ {sret'.ret}
        /\ {splay_head, splay_tail} \subseteq splay_linked(splay')]_vars

\* C21: b6_splay_walk returns NULL when the step goes out of range: in
\* direction NEXT from the tail sentinel and in direction PREV from the
\* head sentinel, whatever the shape of the tree.
C21_OutOfRangeNull ==
    (/\ sret.op = "step"
     /\ sret.arg \in {<<splay_tail, B6_NEXT>>, <<splay_head, B6_PREV>>})
        => sret.ok /\ sret.ret = NULL

\* C22: the comparison callback is never called with the head or the
\* tail sentinel as an argument, during b6_splay_add, b6_splay_search and
\* b6_splay_walk, whatever the shape of the tree.
C22_SplaySentinelsNotExamined ==
    sret.op \in {"add", "search", "walk", "step"} =>
        sret.examined \cap {splay_head, splay_tail} = {}

(***************************************************************************)
(* Vector.                                                                 *)
(***************************************************************************)
\* The smallest power of two from p on that is at least need.
RECURSIVE power_of_two_from(_, _)
power_of_two_from(p, need) ==
    IF p >= need THEN p ELSE power_of_two_from(2 * p, need)

\* An add that was handed slots.
add_handed(r) == r.op = "add" /\ r.handed

\* C23: when add(index, n) needs more room (length + n > capacity) and
\* gets it, the new capacity is the smallest power of two that is at least
\* length + n, the first growth starting at 2.
C23_GrowthToPowerOfTwo ==
    [][(/\ add_handed(vret')
        /\ vector.length + vret'.n > vector.capacity)
          => vector'.capacity =
                 power_of_two_from(2, vector.length + vret'.n)]_vars

\* C24: add(i, n) with i <= length followed by del(i, n) returns the
\* vector to the length and the contents it had before the add, and the
\* del returns n.
C24_AddDelRoundTrip ==
    [][(/\ add_handed(vret)
        /\ vret.index <= vret.base.length
        /\ vret'.op = "del"
        /\ vret'.index = vret.index
        /\ vret'.n = vret.n)
          => /\ vret'.ok
             /\ vret'.ret = vret'.n
             /\ vector'.length = vret.base.length
             /\ vector'.items = vret.base.items]_vars

\* The capacity the doubling of b6_vector_expand is after, computed
\* without the limits of unsigned long.
RECURSIVE doubled(_, _)
doubled(capacity, need) ==
    IF capacity > need THEN capacity ELSE doubled(2 * capacity, need)

\* add(index, n) on the vector v asks for a length, a capacity or a size
\* in bytes that unsigned long cannot hold.
unrepresentable(v, n) ==
    LET capacity == doubled(IF v.capacity # 0 THEN 2 * v.capacity ELSE 2,
                            v.length + n)
    IN  /\ n # 0
        /\ \/ v.length + n > ULongMax
           \/ /\ v.length + n > v.capacity
              /\ \/ capacity > ULongMax
                 \/ capacity * v.itemsize > ULongMax

\* C25: an add whose length + n, doubled capacity or capacity * itemsize
\* does not fit in unsigned long returns NULL and leaves length, capacity
\* and buffer as they were; length <= capacity after every add.
C25_OverflowDetected ==
    [][vret'.op = "add" =>
          /\ vector'.length <= vector'.capacity
          /\ unrepresentable(vector, vret'.n)
               => /\ ~vret'.hang
                  /\ vret'.ret = NULL
                  /\ vector' = vector]_vars

RECURSIVE deque_hops(_, _, _, _)
deque_hops(d, a, n, fuel) ==
    IF a = deque_tail THEN n
    ELSE IF a = NULL \/ fuel = 0 THEN -1
    ELSE deque_hops(d, d.ref[a], n + 1, fuel - 1)

\* The references met by b6_deque_walk in direction PREV from a until the
\* head.
RECURSIVE deque_back(_, _, _)
deque_back(d, a, fuel) ==
    IF a = deque_head \/ a = NULL \/ fuel = 0 THEN <<>>
    ELSE <<a>> \o deque_back(d, b6_deque_walk(d, a, B6_PREV).ret, fuel - 1)

reverse(seq) == [k \in 1 .. Len(seq) |-> seq[Len(seq) + 1 - k]]

\* C27: after any calls that respect their preconditions, deque.last is
\* the reference whose link is the tail, the links lead from the head to
\* the tail in exactly N + 1 hops for N stored elements, and
\* b6_deque_empty holds iff N = 0.
C27_LastBeforeTail ==
    dret.ok =>
        /\ deque.ref[deque.last] = deque_tail
        /\ deque_hops(deque, deque_head, 0, MaxSrefs + 1) =
               Cardinality(dret.members) + 1
        /\ b6_deque_empty(deque) <=> dret.members = {}

\* A removal of the last of three elements moved deque.last back.
C27_Witness ==
    /\ dret.op = "del_last"
    /\ dret.ok
    /\ Cardinality(dret.members) = 2
    /\ deque.last \in dret.members
    /\ deque.ref[deque.last] = deque_tail

\* C28: references appended with b6_deque_add_last are met in the order of
\* the appends by the walk NEXT from the first to the tail and in the
\* opposite order by the walk PREV from the last to the head; the removals
\* of the first element that follow return them in the order of the
\* appends, and b6_deque_last is the reference appended last as long as
\* the deque is not empty.
C28_InsertionOrder ==
    [][dret'.hist \in {"appends", "drains"} =>
          /\ dret'.ok
          /\ deque_seq(deque') = dret'.order
          /\ deque_back(deque', b6_deque_last(deque'), MaxSrefs + 1) =
                 reverse(dret'.order)
          /\ dret'.op \in {"del_first", "del_after"}
               => dret.order # <<>> /\ dret'.ret = Head(dret.order)
          /\ dret'.order # <<>>
               => b6_deque_last(deque') = dret'.order[Len(dret'.order)]]_vars

\* The first of at least three appended references was removed.
C28_Witness ==
    /\ dret.hist = "drains"
    /\ dret.op = "del_first"
    /\ Len(dret.order) >= 2
    /\ deque_seq(deque) = dret.order

\* The calls C29 lists, made on the deque d.
rejected(d, r) ==
    \/ r.op = "add_after" /\ r.arg[1] = deque_tail
    \/ r.op = "add" /\ r.arg[1] = deque_head
    \/ r.op = "del_after" /\ r.arg[1] \in {deque_tail, d.last}
    \/ r.op = "del" /\ r.arg[1] \in {deque_head, deque_tail}
    \/ r.op \in {"del_first", "del_last"} /\ b6_deque_empty(d)

\* C29: add_after with prev = tail, add with next = head, del_after with
\* prev = tail or prev = last, del of the head or of the tail, and
\* del_first and del_last on an empty deque violate a precondition and
\* leave the deque as it was.
C29_Rejected ==
    [][rejected(deque, dret') => ~dret'.ok /\ deque' = deque]_vars

\* b6_deque_del_after was called with the last of two elements.
C29_Witness ==
    /\ dret.op = "del_after"
    /\ dret.arg = <<deque.last>>
    /\ ~dret.ok
    /\ Cardinality(dret.members) = 2
    /\ deque.last \in dret.members

in_block(ptr, c) == c <= ptr /\ ptr < c + pool.chunk_size + HeaderSize

\* C31: in every state of the pool and for every chunk in the tree, used is
\* the number of live pointers (returned by get, not yet put) that lie in
\* the chunk.
C31_UsedCountsLive ==
    ~crashed =>
        \A c \in tree_chunks :
            chunks[c].used = Cardinality({ptr \in live : in_block(ptr, c)})

\* C32 as stated: a chunk with used > 0 has flag = 0, and flag = 1 only
\* comes with used = 0.
C32_FlagIffUnused ==
    ~crashed =>
        \A c \in tree_chunks :
            /\ chunks[c].used > 0 => chunks[c].flag = 0
            /\ chunks[c].flag = 1 => chunks[c].used = 0

\* The recycled slots that the range lookup maps to chunk c.
queued(c) == {i \in DOMAIN deque_seq(pool.queue) :
                 find_chunk(M, deque_seq(pool.queue)[i]) = c}

\* C32: a chunk with flag = 0 has used > 0 and a chunk with used = 0 has
\* flag = 1; a chunk with used > 0 has flag = 1 only while it is fresh, from
\* initialize_chunk to the first put of one of its slots, so that none of
\* its slots is in the queue.
C32_FlagUnlessFresh ==
    ~crashed =>
        \A c \in tree_chunks :
            /\ chunks[c].flag = 0 => chunks[c].used > 0
            /\ chunks[c].used = 0 => chunks[c].flag = 1
            /\ (chunks[c].used > 0 /\ chunks[c].flag = 1) => queued(c) = {}

\* A put has left a chunk in use with its flag cleared and a slot queued,
\* beside a fresh chunk that is in use with its flag set.
C32_Witness ==
    /\ ~crashed
    /\ pret.op = "put"
    /\ \E c \in tree_chunks :
           chunks[c].used > 0 /\ chunks[c].flag = 0 /\ queued(c) # {}
    /\ \E c \in tree_chunks : chunks[c].used > 0 /\ chunks[c].flag = 1

\* The chunks whose used has dropped to zero and that have slots queued.
drained == {c \in tree_chunks : chunks[c].used = 0 /\ queued(c) # {}}

\* The slots of chunk c that the step pops from the queue.
popped(c) ==
    {i \in queued(c) :
        i <= Len(deque_seq(pool.queue)) - Len(deque_seq(pool'.queue))}

\* Chunk c is off the list, out of the tree and released or cached.
finalized(c) ==
    /\ \A i \in DOMAIN pool'.list : pool'.list[i] # c
    /\ c \notin linked(pool'.tree)
    /\ c \notin blocks' \/ pool'.free = c

\* C33: a get never returns a recycled slot of a chunk whose used has
\* dropped to zero: each such slot it pops is skipped and adds size to the
\* free of the chunk, and the chunk is finalized and released at the pop
\* that brings free back to chunk_size, neither earlier nor later.
C33_DrainedChunkFinalized ==
    [][(Called("get") /\ drained # {}) =>
          /\ ~crashed'
          /\ \A c \in drained :
                 /\ find_chunk(M, pret'.ret) # c
                 /\ chunks'[c].free =
                        chunks[c].free + pool.size * Cardinality(popped(c))
                 /\ finalized(c) <=> chunks'[c].free = pool.chunk_size]_vars

\* The chunks on the list l, and the chunks in the tree t.
on_list(l) == {l[i] : i \in DOMAIN l}
in_tree(t) == linked(t) \ Sentinels

\* C34: the tree and the list of the pool hold the same chunks in every
\* state: a step that puts a chunk on the list has put it in the tree, and
\* a step that takes chunks off the list (finalize_chunk) returns with
\* exactly those chunks taken out of the tree.
C34_TreeMatchesList ==
    [][/\ on_list(pool'.list) = in_tree(pool'.tree)
       /\ on_list(pool'.list) # on_list(pool.list) => ~crashed']_vars

(***************************************************************************)
(* The sentinels of the balanced tree.                                     *)
(***************************************************************************)
\* The least and the greatest of the non-empty set S.
least(S) == CHOOSE x \in S : \A y \in S : x <= y
greatest(S) == CHOOSE x \in S : \A y \in S : x >= y

\* C35 as stated: in every state of the balanced tree root.ref[PREV] is the
\* head, the user nodes hang under head.ref[NEXT], which leads to the least
\* of them, and tail.ref[PREV] leads to the greatest.
C35_HeadUnderRoot ==
    /\ tree[tree_root].ref[B6_PREV] = tree_head
    /\ present(tree) # {} =>
           /\ tree[tree_head].ref[B6_NEXT] \in present(tree)
           /\ present(tree) \subseteq
                  subtree(tree, tree[tree_head].ref[B6_NEXT])
           /\ extreme(tree, tree[tree_head].ref[B6_NEXT], B6_PREV) =
                  least(present(tree))
           /\ has_child(tree, tree_tail, B6_PREV)
           /\ extreme(tree, tree[tree_tail].ref[B6_PREV], B6_NEXT) =
                  greatest(present(tree))

\* C35: in every state of the balanced tree root.ref[PREV] is the top of
\* one tree that holds the head and the tail as nodes among the user nodes:
\* the head is its leftmost node and the tail its rightmost node, wherever
\* the rotations have put them, and b6_tree_walk leads from the head in
\* direction NEXT to the least user node (to the tail when there is none)
\* and from the tail in direction PREV to the greatest (to the head).
C35_SentinelsAtTheEnds ==
    /\ tree[tree_root].top = NULL
    /\ tree[tree_root].ref[B6_NEXT] = NULL
    /\ tree[tree_top(tree)].top = tree_root
    /\ linked(tree) = present(tree) \cup {tree_head, tree_tail}
    /\ extreme(tree, tree_top(tree), B6_PREV) = tree_head
    /\ extreme(tree, tree_top(tree), B6_NEXT) = tree_tail
    /\ b6_tree_first(tree) = IF present(tree) = {} THEN tree_tail
                             ELSE least(present(tree))
    /\ b6_tree_last(tree) = IF present(tree) = {} THEN tree_head
                            ELSE greatest(present(tree))

\* A deletion has left a user node on top and the head without children,
\* below a user node.
C35_Witness ==
    /\ tret.op = "del"
    /\ tree_top(tree) \in present(tree)
    /\ tree[tree_head].top \in present(tree)
    /\ ~has_child(tree, tree_head, B6_NEXT)
    /\ has_child(tree, tree_tail, B6_PREV)

(***************************************************************************)
(* Properties of the threaded splay tree.                                  *)
(***************************************************************************)
\* The nodes of the tree t in order.
nodes_of(t) == threaded_inorder(t, t.root, MaxThreadKeys)

\* C36: b6_splay_search of splay.h, applied to a well-formed threaded tree,
\* whether the key is found or not, leaves a well-formed threaded tree with
\* the same nodes in the same order: no link of a node is null or a thread
\* to the node itself, and b6_splay_walk visits every node once, in
\* ascending order in direction NEXT and in descending order in direction
\* PREV.
C36_SearchKeepsThreads ==
    [][(thret'.op = "search" /\ well_formed(threaded)) =>
          /\ well_formed(threaded')
          /\ nodes_of(threaded') = nodes_of(threaded)
          /\ \A n \in ThreadNodes : \A d \in 0 .. 1 :
                 n \in on_list(nodes_of(threaded)) =>
                     /\ threaded'.mem[n].ref[d] # NULL
                     /\ threaded'.mem[n].ref[d] # b6_splay_to_thread(n)
          /\ threaded_walk_all(threaded', threaded_first(threaded'),
                               B6_NEXT, MaxThreadKeys + 1)
                 = nodes_of(threaded)
          /\ threaded_walk_all(threaded', threaded_last(threaded'),
                               B6_PREV, MaxThreadKeys + 1)
                 = reverse(nodes_of(threaded))]_vars

(***************************************************************************)
(* The slots of the pool.                                                  *)
(***************************************************************************)
\* The bytes [ptr, ptr + size) lie in the block c, after the chunk header.
slot_in_block(ptr, c) ==
    /\ c + HeaderSize <= ptr
    /\ ptr + pool.size <= c + pool.chunk_size + HeaderSize

\* C37: every slot returned by b6_pool_get lies entirely inside a block
\* obtained for a chunk of the pool, after the chunk header.
C37_SlotInsideBlock ==
    ~crashed => \A ptr \in live : \E c \in blocks : slot_in_block(ptr, c)

\* The slots at p and q share no byte.
disjoint(p, q) == p + pool.size <= q \/ q + pool.size <= p

C39_CurrAndFreeAbsent ==
    pret.op = "init" => pool.curr = NULL /\ pool.free = NULL

\* The elements linked in the splay tree: its nodes but the two sentinels.
splay_elements(s) == splay_linked(s) \ {splay_head, splay_tail}

\* C40: in every state reached through add, search and del, b6_splay_empty
\* is non-zero iff the tree holds no element: never true while an element
\* is linked in the tree, never false when none is.
C40_EmptyIffNoElement ==
    sret.ok => (b6_splay_empty(splay) <=> splay_elements(splay) = {})

=============================================================================
